---- MODULE Spec2Model ----
(***************************************************************************)
(* Model of the ranking-evaluation and GMV-opportunity engine of           *)
(* dollars-and-sense: tools/ndcg_visualizer.py (relevance, DCG, IDCG,      *)
(* NDCG, ideal ranking) and tools/ndcg_server.py (aggregate endpoints).    *)
(*                                                                         *)
(* Python floats are modelled in fixed point: a DCG value v stands for     *)
(* v / Scale, a discount 1/log2(n) is the table entry InvLog2(n) / Scale,  *)
(* and an NDCG value v stands for v / Scale.  A Python exception is an     *)
(* outcome [raised |-> <exception name>], a normal return is               *)
(* [raised |-> "none", value |-> v].                                       *)
(***************************************************************************)
EXTENDS Integers, Sequences, FiniteSets, TLC

VARIABLES
    items,      \* the list of item dicts handed to the visualizer functions
    call,       \* the last visualizer call: its arguments and its outcome
    impressions,\* the impression rows of the warehouse table inside the query window
    request,    \* the endpoint and the dimension argument of the last request
    upstream,   \* the dataframe the data source returned to the last request
    response,   \* the JSON body the last request was answered with
    page,       \* what the dashboard shows after its last load function ran
    bq_client,  \* the module global bq_client: None or the client it holds
    handlers    \* each request handler's position inside get_bq_client

vars == <<items, call, impressions, request, upstream, response, page, bq_client, handlers>>

(***************************************************************************)
(* Bounds of the model.                                                    *)
(***************************************************************************)
MaxLen == 3     \* longest item list
MaxPos == 4     \* largest value of an item's position field
MaxK == 4       \* largest cutoff k (larger than MaxLen: k may exceed the list)
MaxGroups == 2  \* most dimension groups in one query result
MaxRows == 3    \* most impression rows in the warehouse table
MinSessions == 2 \* the HAVING COUNT(DISTINCT session_id) threshold, scaled to the table
MaxBucketPos == 120 \* largest position handed to get_bucket (the feed ends at 20)

(***************************************************************************)
(* Fixed-point arithmetic.                                                 *)
(***************************************************************************)
Scale == 1000

\* round(Scale / log2(n)) for n = 2 .. 23
InvLog2Table ==
    <<1000, 631, 500, 431, 387, 356, 333, 315, 301, 289, 279,
      270, 263, 256, 250, 245, 240, 235, 231, 228, 224, 221>>

\* Scale / math.log2(n), n >= 2
InvLog2(n) == InvLog2Table[n - 1]

(***************************************************************************)
(* Outcomes of a Python call.                                              *)
(***************************************************************************)
Return(v) == [raised |-> "none", value |-> v]
Raise(e) == [raised |-> e, value |-> 0]

\* item[key] of a dict: KeyError when the key is absent
HasKey(item, key) == key \in DOMAIN item

\* the module global bq_client before the first request: None
NoClient == 0

\* the request handlers running in the threaded server
MaxHandlers == 2
Handlers == 1..MaxHandlers

\* no handler is inside get_bq_client
NoHandlers == [h \in Handlers |-> [pc |-> "idle", created |-> NoClient, returned |-> NoClient]]

\* no request served yet
NoUpstream == [endpoint |-> "none", failed |-> FALSE, rows |-> <<>>]
NoResponse == [endpoint |-> "none", error |-> "", fields |-> <<>>,
               overall |-> <<>>, items |-> <<>>]

\* the list in the order p
Permuted(list, p) == [i \in 1..Len(list) |-> list[p[i]]]

\* nothing loaded into the dashboard yet
NoPage == [view |-> "none", error |-> "", cards |-> <<>>, rows |-> <<>>]

\* no request made yet
NoRequest == [endpoint |-> "none", dimension |-> ""]

\* no visualizer function called yet
NoCall == [op |-> "none", k |-> 0, graded |-> TRUE, index |-> 0, outcome |-> Return(0)]

(***************************************************************************)
(* tools/ndcg_visualizer.py                                                *)
(***************************************************************************)

\* a plausible slip: the click checked before the purchase
get_relevance_score_click_first(item, graded) ==
    IF graded
    THEN IF ~HasKey(item, "clicked") THEN Raise("KeyError")
         ELSE IF item.clicked THEN Return(2)
         ELSE IF ~HasKey(item, "purchased") THEN Raise("KeyError")
         ELSE IF item.purchased THEN Return(4)
         ELSE Return(0)
    ELSE IF ~HasKey(item, "purchased") THEN Raise("KeyError")
         ELSE IF item.purchased THEN Return(1) ELSE Return(0)

\* a plausible slip: binary mode counting a click as relevant
get_relevance_score_binary_clicks(item, graded) ==
    IF graded
    THEN IF ~HasKey(item, "purchased") THEN Raise("KeyError")
         ELSE IF item.purchased THEN Return(4)
         ELSE IF ~HasKey(item, "clicked") THEN Raise("KeyError")
         ELSE IF item.clicked THEN Return(2)
         ELSE Return(0)
    ELSE IF ~HasKey(item, "purchased") THEN Raise("KeyError")
         ELSE IF item.purchased THEN Return(1)
         ELSE IF ~HasKey(item, "clicked") THEN Raise("KeyError")
         ELSE IF item.clicked THEN Return(1) ELSE Return(0)

get_relevance_score(item, graded) ==
    IF graded
    THEN IF ~HasKey(item, "purchased") THEN Raise("KeyError")
         ELSE IF item.purchased THEN Return(4)
         ELSE IF ~HasKey(item, "clicked") THEN Raise("KeyError")
         ELSE IF item.clicked THEN Return(2)
         ELSE Return(0)
    ELSE IF ~HasKey(item, "purchased") THEN Raise("KeyError")
         ELSE IF item.purchased THEN Return(1) ELSE Return(0)

\* a plausible slip: items[:k + 1]
Slice_inclusive(s, k) == SubSeq(s, 1, IF k + 1 < Len(s) THEN k + 1 ELSE Len(s))

\* items[:k] for k >= 0
Slice(s, k) == SubSeq(s, 1, IF k < Len(s) THEN k ELSE Len(s))

\* the body of calculate_dcg's for loop, from index i on, dcg accumulated so far
RECURSIVE dcg_loop(_, _, _, _)
dcg_loop(prefix, i, graded, dcg) ==
    IF i > Len(prefix) THEN Return(dcg)
    ELSE LET rel == get_relevance_score(prefix[i], graded) IN
         IF rel.raised # "none" THEN rel
         ELSE dcg_loop(prefix, i + 1, graded, dcg + rel.value * InvLog2(i + 1))

\* a plausible slip: the discount taken from the item's position field
RECURSIVE dcg_loop_by_position(_, _, _, _)
dcg_loop_by_position(prefix, i, graded, dcg) ==
    IF i > Len(prefix) THEN Return(dcg)
    ELSE LET rel == get_relevance_score(prefix[i], graded) IN
         IF rel.raised # "none" THEN rel
         ELSE dcg_loop_by_position(prefix, i + 1, graded,
                  dcg + rel.value * InvLog2(prefix[i].position + 1))

calculate_dcg_by_position(list, k, graded) ==
    dcg_loop_by_position(Slice(list, k), 1, graded, 0)

\* a plausible slip: the discount counted from the end of the prefix
calculate_dcg_from_tail(list, k, graded) ==
    LET prefix == Slice(list, k) IN
    dcg_loop([i \in 1..Len(prefix) |-> prefix[Len(prefix) + 1 - i]], 1, graded, 0)

calculate_dcg(list, k, graded) == dcg_loop(Slice(list, k), 1, graded, 0)

\* the key function of sorted() is evaluated on every item before any comparison
KeysRaise(list, graded) ==
    \E i \in 1..Len(list) : get_relevance_score(list[i], graded).raised # "none"

Key(item, graded) == get_relevance_score(item, graded).value

\* stable insertion of x into a list kept in descending key order: x goes after
\* every element whose key is >= its own
RECURSIVE InsertDesc(_, _, _)
InsertDesc(x, sortedList, graded) ==
    IF sortedList = <<>> THEN <<x>>
    ELSE IF Key(Head(sortedList), graded) >= Key(x, graded)
         THEN <<Head(sortedList)>> \o InsertDesc(x, Tail(sortedList), graded)
         ELSE <<x>> \o sortedList

RECURSIVE SortDesc(_, _, _)
SortDesc(list, done, graded) ==
    IF list = <<>> THEN done
    ELSE SortDesc(Tail(list), InsertDesc(Head(list), done, graded), graded)

\* stable insertion into ascending key order
RECURSIVE InsertAsc(_, _, _)
InsertAsc(x, sortedList, graded) ==
    IF sortedList = <<>> THEN <<x>>
    ELSE IF Key(Head(sortedList), graded) <= Key(x, graded)
         THEN <<Head(sortedList)>> \o InsertAsc(x, Tail(sortedList), graded)
         ELSE <<x>> \o sortedList

RECURSIVE SortAsc(_, _, _)
SortAsc(list, done, graded) ==
    IF list = <<>> THEN done
    ELSE SortAsc(Tail(list), InsertAsc(Head(list), done, graded), graded)

Reverse(s) == [i \in 1..Len(s) |-> s[Len(s) + 1 - i]]

\* sorted(list, key=lambda x: get_relevance_score(x, graded), reverse=True):
\* a stable sort, and reverse=True keeps the order of equal keys
sorted_by_relevance(list, graded) ==
    IF KeysRaise(list, graded) THEN Raise("KeyError")
    ELSE Return(SortDesc(list, <<>>, graded))

\* a plausible slip: sorted(...)[::-1], which reverses the order of equal keys
get_ideal_ranking_reversed(list, graded) ==
    IF KeysRaise(list, graded) THEN Raise("KeyError")
    ELSE Return(Reverse(SortAsc(list, <<>>, graded)))

\* a plausible slip: reverse=True left out of get_ideal_ranking
get_ideal_ranking_ascending(list, graded) ==
    IF KeysRaise(list, graded) THEN Raise("KeyError")
    ELSE Return(SortAsc(list, <<>>, graded))

get_ideal_ranking(list, graded) == sorted_by_relevance(list, graded)

\* a plausible slip: reverse=True left out
calculate_idcg_ascending(list, k, graded) ==
    IF KeysRaise(list, graded) THEN Raise("KeyError")
    ELSE calculate_dcg(SortAsc(list, <<>>, graded), k, graded)

\* a plausible slip: the sort left out
calculate_idcg_unsorted(list, k, graded) ==
    IF KeysRaise(list, graded) THEN Raise("KeyError")
    ELSE calculate_dcg(list, k, graded)

calculate_idcg(list, k, graded) ==
    LET sorted_items == sorted_by_relevance(list, graded) IN
    IF sorted_items.raised # "none" THEN sorted_items
    ELSE calculate_dcg(sorted_items.value, k, graded)

\* a plausible slip: the idcg == 0 guard left out
calculate_ndcg_unguarded(list, k, graded) ==
    LET dcg == calculate_dcg(list, k, graded)
        idcg == calculate_idcg(list, k, graded)
    IN  IF dcg.raised # "none" THEN dcg
        ELSE IF idcg.raised # "none" THEN idcg
        ELSE IF idcg.value = 0 THEN Raise("ZeroDivisionError")
        ELSE Return((dcg.value * Scale) \div idcg.value)

calculate_ndcg(list, k, graded) ==
    LET dcg == calculate_dcg(list, k, graded)
        idcg == calculate_idcg(list, k, graded)
    IN  IF dcg.raised # "none" THEN dcg
        ELSE IF idcg.raised # "none" THEN idcg
        ELSE IF idcg.value = 0 THEN Return(0)
        ELSE Return((dcg.value * Scale) \div idcg.value)

(***************************************************************************)
(* The visualizer as a state machine: a list is built item by item, then   *)
(* one of the functions is called on it.                                   *)
(***************************************************************************)
\* the item dicts: both interaction flags present, or both missing
ItemsAt(pos) ==
    {[position |-> pos, clicked |-> c, purchased |-> p] : c \in BOOLEAN, p \in BOOLEAN}
        \cup {[position |-> pos]}

LastPosition == IF items = <<>> THEN 0 ELSE items[Len(items)].position

InitRank ==
    /\ items = <<>>
    /\ call = NoCall
    /\ impressions = {}
    /\ request = NoRequest
    /\ upstream = NoUpstream
    /\ response = NoResponse
    /\ page = NoPage
    /\ bq_client = NoClient
    /\ handlers = NoHandlers

\* the next item of the list, at a later position than the items before it
AddItem ==
    /\ Len(items) < MaxLen
    /\ \E pos \in (LastPosition + 1)..MaxPos : \E item \in ItemsAt(pos) :
           items' = Append(items, item)
    /\ call' = NoCall
    /\ UNCHANGED <<impressions, request, upstream, response, page, bq_client, handlers>>

CallGetRelevanceScore ==
    \E i \in 1..Len(items), graded \in BOOLEAN :
        /\ call' = [op |-> "get_relevance_score", k |-> 0, graded |-> graded,
                    index |-> i, outcome |-> get_relevance_score(items[i], graded)]
        /\ UNCHANGED <<items, impressions, request, upstream, response, page, bq_client, handlers>>

CallCalculateDcg ==
    \E k \in 0..MaxK, graded \in BOOLEAN :
        /\ call' = [op |-> "calculate_dcg", k |-> k, graded |-> graded,
                    index |-> 0, outcome |-> calculate_dcg(items, k, graded)]
        /\ UNCHANGED <<items, impressions, request, upstream, response, page, bq_client, handlers>>

CallCalculateIdcg ==
    \E k \in 0..MaxK, graded \in BOOLEAN :
        /\ call' = [op |-> "calculate_idcg", k |-> k, graded |-> graded,
                    index |-> 0, outcome |-> calculate_idcg(items, k, graded)]
        /\ UNCHANGED <<items, impressions, request, upstream, response, page, bq_client, handlers>>

CallCalculateNdcg ==
    \E k \in 0..MaxK, graded \in BOOLEAN :
        /\ call' = [op |-> "calculate_ndcg", k |-> k, graded |-> graded,
                    index |-> 0, outcome |-> calculate_ndcg(items, k, graded)]
        /\ UNCHANGED <<items, impressions, request, upstream, response, page, bq_client, handlers>>

CallGetIdealRanking ==
    \E graded \in BOOLEAN :
        /\ call' = [op |-> "get_ideal_ranking", k |-> 0, graded |-> graded,
                    index |-> 0, outcome |-> get_ideal_ranking(items, graded)]
        /\ UNCHANGED <<items, impressions, request, upstream, response, page, bq_client, handlers>>

NextRank ==
    \/ AddItem
    \/ CallGetRelevanceScore
    \/ CallCalculateDcg
    \/ CallCalculateIdcg
    \/ CallCalculateNdcg
    \/ CallGetIdealRanking

SpecRank == InitRank /\ [][NextRank]_vars

(***************************************************************************)
(* Python floats of tools/ndcg_server.py: None, NaN, +Infinity, -Infinity  *)
(* or a finite number, kept as an exact fraction n / d in lowest terms.    *)
(***************************************************************************)
RECURSIVE GCD(_, _)
GCD(a, b) == IF b = 0 THEN a ELSE GCD(b, a % b)

Abs(x) == IF x < 0 THEN -x ELSE x

\* the finite float n / d, d > 0
Fin(n, d) ==
    LET g == GCD(Abs(n), d) IN [kind |-> "fin", n |-> n \div g, d |-> d \div g]

None == [kind |-> "none", n |-> 0, d |-> 1]
NaN == [kind |-> "nan", n |-> 0, d |-> 1]
PosInf == [kind |-> "inf", n |-> 0, d |-> 1]
NegInf == [kind |-> "ninf", n |-> 0, d |-> 1]
Zero == Fin(0, 1)

\* -1, 0 or 1: the sign of a float that is not NaN
Sign(x) ==
    CASE x.kind = "inf" -> 1
      [] x.kind = "ninf" -> -1
      [] OTHER -> IF x.n > 0 THEN 1 ELSE IF x.n < 0 THEN -1 ELSE 0

Signed(sign) == IF sign > 0 THEN PosInf ELSE IF sign < 0 THEN NegInf ELSE NaN

FNeg(x) ==
    CASE x.kind = "fin" -> Fin(-x.n, x.d)
      [] x.kind = "inf" -> NegInf
      [] x.kind = "ninf" -> PosInf
      [] OTHER -> x

\* a + b
FAdd(a, b) ==
    IF a.kind = "nan" \/ b.kind = "nan" THEN NaN
    ELSE IF a.kind = "fin" /\ b.kind = "fin" THEN Fin(a.n * b.d + b.n * a.d, a.d * b.d)
    ELSE IF a.kind = "fin" THEN b
    ELSE IF b.kind = "fin" THEN a
    ELSE IF a.kind = b.kind THEN a ELSE NaN

\* a - b
FSub(a, b) == FAdd(a, FNeg(b))

\* a * b
FMul(a, b) ==
    IF a.kind = "nan" \/ b.kind = "nan" THEN NaN
    ELSE IF a.kind = "fin" /\ b.kind = "fin"
         THEN LET g == GCD(Abs(a.n), b.d)
                  h == GCD(Abs(b.n), a.d)
              IN  Fin((a.n \div g) * (b.n \div h), (a.d \div h) * (b.d \div g))
    ELSE Signed(Sign(a) * Sign(b))

\* a / b for b # 0
FDiv(a, b) ==
    IF a.kind = "nan" \/ b.kind = "nan" THEN NaN
    ELSE IF a.kind = "fin" /\ b.kind = "fin"
         THEN LET g == GCD(Abs(a.n), Abs(b.n))
                  h == GCD(b.d, a.d)
              IN  Fin((a.n \div g) * (b.d \div h) * Sign(b), (a.d \div h) * (Abs(b.n) \div g))
    ELSE IF a.kind = "fin" THEN Zero
    ELSE IF b.kind = "fin" THEN Signed(Sign(a) * Sign(b))
    ELSE NaN

\* a < b: False whenever an operand is NaN
FLt(a, b) ==
    IF a.kind = "nan" \/ b.kind = "nan" THEN FALSE
    ELSE IF a.kind = "fin" /\ b.kind = "fin" THEN a.n * b.d < b.n * a.d
    ELSE IF a.kind = b.kind THEN FALSE
    ELSE a.kind = "ninf" \/ b.kind = "inf"

FLe(a, b) == a.kind # "nan" /\ b.kind # "nan" /\ (a = b \/ FLt(a, b))
FGt(a, b) == FLt(b, a)
FGe(a, b) == FLe(b, a)

\* bool(x): None and 0 are false, every other float (NaN included) is true
Truthy(x) == ~(x.kind = "none" \/ (x.kind = "fin" /\ x.n = 0))

\* int(x) for a float x
py_int(x) ==
    CASE x.kind = "none" -> Raise("TypeError")
      [] x.kind = "nan" -> Raise("ValueError")
      [] x.kind \in {"inf", "ninf"} -> Raise("OverflowError")
      [] OTHER -> Return(Fin(IF x.n >= 0 THEN x.n \div x.d ELSE -((-x.n) \div x.d), 1))

\* float(x)
py_float(x) ==
    CASE x.kind = "none" -> Raise("TypeError")
      [] x.kind = "object" -> Raise("TypeError")
      [] x.kind = "text" -> Raise("ValueError")
      [] x.kind = "int" -> Return(Fin(x.n, 1))
      [] x.kind = "hugeint" -> Raise("OverflowError")
      [] OTHER -> Return(x)

\* int(row[c]) if row[c] else 0
int_or_zero(x) == IF Truthy(x) THEN py_int(x) ELSE Return(Zero)

\* float(row[c]) if row[c] else 0
float_or_zero(x) == IF Truthy(x) THEN py_float(x) ELSE Return(Zero)

\* the module-level safe_float(val, default)
safe_float(val, default) ==
    IF val.kind = "none" THEN default
    ELSE IF val.kind \in {"nan", "inf", "ninf"} THEN default
    ELSE val

\* the safe_float(val, default=0) nested in api_optimization and in
\* api_gmv_opportunity: only None and NaN give the default
local_safe_float(val) ==
    IF val.kind = "none" THEN Zero
    ELSE IF val.kind = "nan" THEN Zero
    ELSE val

\* the first exception among the outcomes, in evaluation order
RECURSIVE FirstRaised(_)
FirstRaised(outcomes) ==
    IF outcomes = <<>> THEN "none"
    ELSE IF Head(outcomes).raised # "none" THEN Head(outcomes).raised
    ELSE FirstRaised(Tail(outcomes))

(***************************************************************************)
(* api_gmv_opportunity                                                     *)
(***************************************************************************)
UPLIFT_FACTOR == Fin(15, 10)
NDCG_TARGETS == <<Fin(6, 10), Fin(7, 10), Fin(8, 10)>>
Hundred == Fin(100, 1)

\* a plausible slip: the gap taken as an absolute difference
calc_gmv_opportunity_absolute(current_ndcg, current_gmv, target_ndcg) ==
    IF FLe(current_ndcg, Zero) \/ FGe(current_ndcg, target_ndcg) THEN Zero
    ELSE LET ndcg_improvement_pct == FMul(FSub(target_ndcg, current_ndcg), Hundred)
         IN  FMul(FMul(current_gmv, FDiv(ndcg_improvement_pct, Hundred)), UPLIFT_FACTOR)

\* a plausible slip: the uplift factor left out
calc_gmv_opportunity_without_uplift(current_ndcg, current_gmv, target_ndcg) ==
    IF FLe(current_ndcg, Zero) \/ FGe(current_ndcg, target_ndcg) THEN Zero
    ELSE LET ndcg_improvement_pct ==
                 FMul(FDiv(FSub(target_ndcg, current_ndcg), current_ndcg), Hundred)
         IN  FMul(current_gmv, FDiv(ndcg_improvement_pct, Hundred))

\* a plausible slip: no early return for a group at or above the target
calc_gmv_opportunity_unguarded(current_ndcg, current_gmv, target_ndcg) ==
    IF FLe(current_ndcg, Zero) THEN Zero
    ELSE LET ndcg_improvement_pct ==
                 FMul(FDiv(FSub(target_ndcg, current_ndcg), current_ndcg), Hundred)
         IN  FMul(FMul(current_gmv, FDiv(ndcg_improvement_pct, Hundred)), UPLIFT_FACTOR)

calc_gmv_opportunity(current_ndcg, current_gmv, target_ndcg) ==
    IF FLe(current_ndcg, Zero) \/ FGe(current_ndcg, target_ndcg) THEN Zero
    ELSE LET ndcg_improvement_pct ==
                 FMul(FDiv(FSub(target_ndcg, current_ndcg), current_ndcg), Hundred)
         IN  FMul(FMul(current_gmv, FDiv(ndcg_improvement_pct, Hundred)), UPLIFT_FACTOR)

\* the int() conversions of one row, in the order the item dict evaluates them
RowIntOutcomes(row) ==
    <<int_or_zero(row.sessions), int_or_zero(row.total_impressions),
      int_or_zero(row.total_clicks), int_or_zero(row.total_purchases)>>

\* str(row['dimension_value']) if row['dimension_value'] else 'Unknown'
DimensionLabel(row) == IF row.dimension_value = "" THEN "Unknown" ELSE row.dimension_value

\* one pass of the for loop of api_gmv_opportunity: the item of a row
gmv_item(row, overall_median_ndcg) ==
    LET current_ndcg == local_safe_float(row.avg_ndcg)
        current_gmv == local_safe_float(row.total_gmv_usd)
        below == FGt(current_ndcg, Zero) /\ FLt(current_ndcg, overall_median_ndcg)
        ndcg_gap == IF below THEN FSub(overall_median_ndcg, current_ndcg) ELSE Zero
        ndcg_gap_pct == IF below THEN FMul(FDiv(ndcg_gap, current_ndcg), Hundred) ELSE Zero
        potential_gmv_increase ==
            IF below
            THEN FMul(FMul(current_gmv, FDiv(ndcg_gap_pct, Hundred)), UPLIFT_FACTOR)
            ELSE Zero
        ints == RowIntOutcomes(row)
    IN  [dimension_value |-> DimensionLabel(row),
         sessions |-> ints[1].value,
         impressions |-> ints[2].value,
         clicks |-> ints[3].value,
         purchases |-> ints[4].value,
         gmv_usd |-> current_gmv,
         ctr |-> local_safe_float(row.ctr),
         ptr |-> local_safe_float(row.ptr),
         avg_ndcg |-> current_ndcg,
         ndcg_gap |-> ndcg_gap,
         ndcg_gap_pct |-> ndcg_gap_pct,
         gmv_opportunity |-> potential_gmv_increase,
         gmv_opp_06 |-> calc_gmv_opportunity(current_ndcg, current_gmv, NDCG_TARGETS[1]),
         gmv_opp_07 |-> calc_gmv_opportunity(current_ndcg, current_gmv, NDCG_TARGETS[2]),
         gmv_opp_08 |-> calc_gmv_opportunity(current_ndcg, current_gmv, NDCG_TARGETS[3])]

\* a plausible slip: total = item[field], the last row wins
RECURSIVE Accumulate_overwriting(_, _, _)
Accumulate_overwriting(list, field, total) ==
    IF list = <<>> THEN total
    ELSE Accumulate_overwriting(Tail(list), field, Head(list)[field])

\* total += item[field], row after row
RECURSIVE Accumulate(_, _, _)
Accumulate(list, field, total) ==
    IF list = <<>> THEN total
    ELSE Accumulate(Tail(list), field, FAdd(total, Head(list)[field]))

\* items.sort(key=lambda x: x['gmv_opportunity'], reverse=True): a stable
\* insertion into descending order of the key
RECURSIVE InsertByOpportunity(_, _)
InsertByOpportunity(x, sortedList) ==
    IF sortedList = <<>> THEN <<x>>
    ELSE IF FLt(Head(sortedList).gmv_opportunity, x.gmv_opportunity)
         THEN <<x>> \o sortedList
         ELSE <<Head(sortedList)>> \o InsertByOpportunity(x, Tail(sortedList))

RECURSIVE SortByOpportunity(_, _)
SortByOpportunity(list, done) ==
    IF list = <<>> THEN done
    ELSE SortByOpportunity(Tail(list), InsertByOpportunity(Head(list), done))

\* the exception the for loop stops with, if any
RECURSIVE LoopRaised(_)
LoopRaised(rows) ==
    IF rows = <<>> THEN "none"
    ELSE IF FirstRaised(RowIntOutcomes(Head(rows))) # "none"
         THEN FirstRaised(RowIntOutcomes(Head(rows)))
         ELSE LoopRaised(Tail(rows))

\* the JSON body of api_gmv_opportunity for the dataframe `result`
api_gmv_opportunity(result) ==
    IF result.failed THEN
        [endpoint |-> "gmv_opportunity", error |-> "query failed",
         fields |-> [total_opportunity |-> Zero], overall |-> <<>>, items |-> <<>>]
    ELSE IF Len(result.rows) = 0 THEN
        [endpoint |-> "gmv_opportunity", error |-> "No data found",
         fields |-> [total_opportunity |-> Zero], overall |-> <<>>, items |-> <<>>]
    ELSE IF LoopRaised(result.rows) # "none" THEN
        [endpoint |-> "gmv_opportunity", error |-> LoopRaised(result.rows),
         fields |-> [total_opportunity |-> Zero], overall |-> <<>>, items |-> <<>>]
    ELSE
        LET first == result.rows[1]
            overall_median_ndcg == local_safe_float(first.overall_median_ndcg)
            overall_avg_ndcg == local_safe_float(first.overall_avg_ndcg)
            total_gmv_all == local_safe_float(first.total_gmv_all)
            unsorted == [i \in 1..Len(result.rows) |->
                            gmv_item(result.rows[i], overall_median_ndcg)]
        IN  [endpoint |-> "gmv_opportunity",
             error |-> "",
             fields |-> [total_opportunity |-> Accumulate(unsorted, "gmv_opportunity", Zero),
                         total_opp_06 |-> Accumulate(unsorted, "gmv_opp_06", Zero),
                         total_opp_07 |-> Accumulate(unsorted, "gmv_opp_07", Zero),
                         total_opp_08 |-> Accumulate(unsorted, "gmv_opp_08", Zero),
                         count |-> Fin(Len(unsorted), 1)],
             overall |-> [avg_ndcg |-> overall_avg_ndcg,
                          median_ndcg |-> overall_median_ndcg,
                          total_gmv |-> total_gmv_all],
             items |-> SortByOpportunity(unsorted, <<>>)]

(***************************************************************************)
(* The tail of the api_gmv_opportunity query: the overall CTE over the     *)
(* dimension_metrics rows, the CROSS JOIN, ORDER BY total_gmv_usd DESC,    *)
(* and to_dataframe().  A SQL NULL is None.                                *)
(***************************************************************************)
NonNull(cells) == SelectSeq(cells, LAMBDA x : x.kind # "none")

RECURSIVE FSum(_)
FSum(cells) == IF cells = <<>> THEN Zero ELSE FAdd(Head(cells), FSum(Tail(cells)))

\* SUM(x): NULLs are skipped, NULL when nothing is left
SqlSum(cells) == IF NonNull(cells) = <<>> THEN None ELSE FSum(NonNull(cells))

\* AVG(x): NULLs are skipped, NULL when nothing is left
SqlAvg(cells) ==
    IF NonNull(cells) = <<>> THEN None
    ELSE FDiv(FSum(NonNull(cells)), Fin(Len(NonNull(cells)), 1))

\* how many of the cells are below x, and how many are equal to it
CountBelow(cells, x) == Cardinality({i \in 1..Len(cells) : FLt(cells[i], x)})
CountEqual(cells, x) == Cardinality({i \in 1..Len(cells) : cells[i] = x})

\* APPROX_QUANTILES(x, 2)[OFFSET(1)]: NULLs are skipped; the middle value of
\* the sorted values, either of the two middle values when their number is even
SqlMedians(cells) ==
    LET vals == NonNull(cells)
        m == Len(vals)
        ranks == IF m % 2 = 1 THEN {(m + 1) \div 2} ELSE {m \div 2, m \div 2 + 1}
    IN  IF m = 0 THEN {None}
        ELSE {vals[i] : i \in {j \in 1..m : \E r \in ranks :
                  /\ CountBelow(vals, vals[j]) < r
                  /\ r <= CountBelow(vals, vals[j]) + CountEqual(vals, vals[j])}}

Column(rows, c) == [i \in 1..Len(rows) |-> rows[i][c]]

\* to_dataframe(): a NULL of a FLOAT64 column arrives as NaN
ToDataframeCell(x) == IF x.kind = "none" THEN NaN ELSE x

\* the dataframe rows of the query, for the dimension_metrics rows `groups` and
\* the median the engine picked
GmvDataframe(groups, median) ==
    [i \in 1..Len(groups) |->
        [dimension_value |-> groups[i].dimension_value,
         sessions |-> groups[i].sessions,
         total_impressions |-> groups[i].total_impressions,
         total_clicks |-> groups[i].total_clicks,
         total_purchases |-> groups[i].total_purchases,
         total_gmv_usd |-> ToDataframeCell(groups[i].total_gmv_usd),
         ctr |-> ToDataframeCell(groups[i].ctr),
         ptr |-> ToDataframeCell(groups[i].ptr),
         avg_ndcg |-> ToDataframeCell(groups[i].avg_ndcg),
         overall_avg_ndcg |-> ToDataframeCell(SqlAvg(Column(groups, "avg_ndcg"))),
         overall_median_ndcg |-> ToDataframeCell(median),
         total_gmv_all |-> ToDataframeCell(SqlSum(Column(groups, "total_gmv_usd"))),
         overall_avg_ctr |-> ToDataframeCell(SqlAvg(Column(groups, "ctr")))]]

\* the values a group's avg_ndcg and total_gmv_usd are drawn from
NdcgCells == {None, Fin(3, 10), Fin(4, 10), Fin(5, 10), Fin(6, 10), Fin(7, 10), Fin(9, 10)}
GmvCells == {Zero, Fin(250000, 1), Fin(1000000, 1)}

GroupNames == <<"products_from_merchant_discovery_recs", "minis_shoppable_video",
                "merchant_rec_with_deals", "unknown">>

\* a dimension_metrics row: a group that passed HAVING COUNT(DISTINCT session_id) >= 50
GmvGroup(i, gmv, ndcg) ==
    [dimension_value |-> GroupNames[i],
     sessions |-> Fin(50, 1),
     total_impressions |-> Fin(200, 1),
     total_clicks |-> Fin(20, 1),
     total_purchases |-> Fin(2, 1),
     total_gmv_usd |-> gmv,
     ctr |-> Fin(10, 1),
     ptr |-> Fin(1, 1),
     avg_ndcg |-> ndcg]

\* the dimension_metrics tables of up to MaxGroups groups, ORDER BY
\* total_gmv_usd DESC
GmvGroupTables ==
    UNION {{[i \in 1..n |-> GmvGroup(i, gmv[i], ndcg[i])] :
                gmv \in {g \in [1..n -> GmvCells] :
                            \A i \in 1..n : \A j \in (i + 1)..n : FGe(g[i], g[j])},
                ndcg \in [1..n -> NdcgCells]} : n \in 0..MaxGroups}

\* the results client.query(query).to_dataframe() can give api_gmv_opportunity
GmvQueryResults ==
    UNION {{[endpoint |-> "gmv_opportunity", failed |-> FALSE,
             rows |-> GmvDataframe(groups, median)] :
                median \in SqlMedians(Column(groups, "avg_ndcg"))} :
           groups \in GmvGroupTables}

InitGmv ==
    /\ items = <<>>
    /\ call = NoCall
    /\ impressions = {}
    /\ request = NoRequest
    /\ upstream = NoUpstream
    /\ response = NoResponse
    /\ page = NoPage
    /\ bq_client = NoClient
    /\ handlers = NoHandlers

\* GET /api/gmv_opportunity.  The handlers keep no state between requests, so
\* one request per behaviour reaches every state a sequence of requests reaches.
ApiGmvOpportunity ==
    /\ response = NoResponse
    /\ \E result \in GmvQueryResults :
           /\ upstream' = result
           /\ response' = api_gmv_opportunity(result)
    /\ request' = [endpoint |-> "gmv_opportunity", dimension |-> "module"]
    /\ UNCHANGED <<items, call, impressions, page, bq_client, handlers>>

NextGmv == ApiGmvOpportunity

SpecGmv == InitGmv /\ [][NextGmv]_vars

(***************************************************************************)
(* api_metrics, api_optimization, api_trends                               *)
(***************************************************************************)
MetricsIntFields ==
    <<"total_sessions", "total_impressions", "total_clicks", "total_purchases",
      "sessions_with_clicks", "sessions_with_purchases">>

MetricsFloatFields ==
    <<"ctr", "ptr", "conversion_rate",
      "recall_click_at_1", "recall_click_at_5", "recall_click_at_10",
      "recall_purchase_at_1", "recall_purchase_at_5", "recall_purchase_at_10",
      "avg_ndcg">>

Range(s) == {s[i] : i \in 1..Len(s)}

\* the JSON body of api_metrics for the dataframe `result`
api_metrics(result) ==
    IF result.failed THEN
        [endpoint |-> "metrics", error |-> "query failed",
         fields |-> <<>>, overall |-> <<>>, items |-> <<>>]
    ELSE IF Len(result.rows) = 0 THEN
        [endpoint |-> "metrics", error |-> "No data found",
         fields |-> <<>>, overall |-> <<>>, items |-> <<>>]
    ELSE
        LET row == result.rows[1]
            raised == FirstRaised(
                [i \in 1..4 |-> int_or_zero(row[MetricsIntFields[i]])]
                \o [i \in 1..Len(MetricsFloatFields) |->
                        float_or_zero(row[MetricsFloatFields[i]])]
                \o [i \in 1..2 |-> int_or_zero(row[MetricsIntFields[i + 4]])])
        IN  IF raised # "none" THEN
                [endpoint |-> "metrics", error |-> raised,
                 fields |-> <<>>, overall |-> <<>>, items |-> <<>>]
            ELSE
                [endpoint |-> "metrics",
                 error |-> "",
                 fields |-> [c \in Range(MetricsIntFields) \cup Range(MetricsFloatFields) |->
                                IF c \in Range(MetricsIntFields)
                                THEN int_or_zero(row[c]).value
                                ELSE float_or_zero(row[c]).value],
                 overall |-> <<>>,
                 items |-> <<>>]

\* one pass of the for loop of api_optimization: the item of a row
optimization_item(row) ==
    LET ints == RowIntOutcomes(row) IN
    [dimension_value |-> DimensionLabel(row),
     sessions |-> ints[1].value,
     impressions |-> ints[2].value,
     clicks |-> ints[3].value,
     purchases |-> ints[4].value,
     ctr |-> local_safe_float(row.ctr),
     ptr |-> local_safe_float(row.ptr),
     avg_ndcg |-> local_safe_float(row.avg_ndcg),
     recall_click_at_5 |-> local_safe_float(row.recall_click_at_5),
     recall_click_at_10 |-> local_safe_float(row.recall_click_at_10),
     recall_purchase_at_5 |-> local_safe_float(row.recall_purchase_at_5),
     recall_purchase_at_10 |-> local_safe_float(row.recall_purchase_at_10)]

\* the JSON body of api_optimization for the dataframe `result`
api_optimization(result) ==
    IF result.failed THEN
        [endpoint |-> "optimization", error |-> "query failed",
         fields |-> <<>>, overall |-> <<>>, items |-> <<>>]
    ELSE IF Len(result.rows) = 0 THEN
        [endpoint |-> "optimization", error |-> "No data found",
         fields |-> <<>>, overall |-> <<>>, items |-> <<>>]
    ELSE IF LoopRaised(result.rows) # "none" THEN
        [endpoint |-> "optimization", error |-> LoopRaised(result.rows),
         fields |-> <<>>, overall |-> <<>>, items |-> <<>>]
    ELSE
        LET first == result.rows[1] IN
        [endpoint |-> "optimization",
         error |-> "",
         fields |-> [count |-> Fin(Len(result.rows), 1)],
         overall |-> [avg_ndcg |-> local_safe_float(first.overall_avg_ndcg),
                      median_ndcg |-> local_safe_float(first.overall_median_ndcg),
                      avg_recall_click |-> local_safe_float(first.overall_avg_recall_click),
                      median_recall_click |->
                          local_safe_float(first.overall_median_recall_click),
                      avg_recall_purchase |->
                          local_safe_float(first.overall_avg_recall_purchase),
                      median_recall_purchase |->
                          local_safe_float(first.overall_median_recall_purchase),
                      avg_ctr |-> local_safe_float(first.overall_avg_ctr),
                      avg_ptr |-> local_safe_float(first.overall_avg_ptr)],
         items |-> [i \in 1..Len(result.rows) |-> optimization_item(result.rows[i])]]

\* one pass of the for loop of api_trends: the entry of a day
trends_entry(row) ==
    LET ints == RowIntOutcomes(row) IN
    [date |-> row.event_date,
     sessions |-> ints[1].value,
     impressions |-> ints[2].value,
     clicks |-> ints[3].value,
     purchases |-> ints[4].value,
     ctr |-> safe_float(row.ctr, Zero),
     ptr |-> safe_float(row.ptr, Zero),
     ndcg |-> safe_float(row.avg_ndcg, Zero)]

\* the JSON body of api_trends for the dataframe `result`
api_trends(result) ==
    IF result.failed THEN
        [endpoint |-> "trends", error |-> "query failed",
         fields |-> <<>>, overall |-> <<>>, items |-> <<>>]
    ELSE IF LoopRaised(result.rows) # "none" THEN
        [endpoint |-> "trends", error |-> LoopRaised(result.rows),
         fields |-> <<>>, overall |-> <<>>, items |-> <<>>]
    ELSE
        [endpoint |-> "trends",
         error |-> "",
         fields |-> <<>>,
         overall |-> <<>>,
         items |-> [i \in 1..Len(result.rows) |-> trends_entry(result.rows[i])]]

(***************************************************************************)
(* query_sessions and api_sessions, called with the default arguments:     *)
(* no category, segment, surface or country filter, min_items 4, limit 10. *)
(***************************************************************************)
SessionIds == <<"s1", "s2">>

\* sorted(items, key=lambda x: x['position']), a stable sort: x goes after the
\* items at its position or before
RECURSIVE InsertByPosition(_, _)
InsertByPosition(x, sortedRows) ==
    IF sortedRows = <<>> THEN <<x>>
    ELSE IF Head(sortedRows).position <= x.position
         THEN <<Head(sortedRows)>> \o InsertByPosition(x, Tail(sortedRows))
         ELSE <<x>> \o sortedRows

RECURSIVE SortByPosition(_, _)
SortByPosition(rows, done) ==
    IF rows = <<>> THEN done
    ELSE SortByPosition(Tail(rows), InsertByPosition(Head(rows), done))

\* group.sort_values('position'): the default kind, quicksort, is not a stable
\* sort, so rows of the same position come out in one order or another
sort_values(rows) ==
    {Permuted(rows, p) : p \in {q \in Permutations(1..Len(rows)) :
        \A i \in 1..Len(rows) : \A j \in (i + 1)..Len(rows) :
            rows[q[i]].position <= rows[q[j]].position}}

\* the loop over the rows of a group: the first row of each position becomes an item
RECURSIVE session_items(_, _, _)
session_items(rows, seen_positions, done) ==
    IF rows = <<>> THEN done
    ELSE LET row == Head(rows) IN
         IF row.position \in seen_positions
         THEN session_items(Tail(rows), seen_positions, done)
         ELSE session_items(Tail(rows), seen_positions \cup {row.position},
                            Append(done, [position |-> row.position,
                                          product_id |-> row.product_id,
                                          clicked |-> row.is_clicked,
                                          purchased |-> row.has_purchase]))

\* the loop over results.groupby('session_id'), from the group of SessionIds[g]
\* on: state.sessions is the list built so far and state.segment the local
\* variable `segment`, which starts as the segment argument and is assigned in
\* the loop.  The states the loop can end in.
RECURSIVE sessions_loop(_, _, _)
sessions_loop(rows, g, state) ==
    IF g > Len(SessionIds) THEN {state}
    ELSE LET unsorted == SelectSeq(rows, LAMBDA r : r.session_id = SessionIds[g]) IN
         IF unsorted = <<>> THEN sessions_loop(rows, g + 1, state)
         ELSE UNION {
             LET list == session_items(group, {}, <<>>)
                 user_segment == IF group[1].user_id > 0 THEN "returning" ELSE "anonymous"
             IN  IF Len(list) < 4
                 THEN sessions_loop(rows, g + 1, state)
                 ELSE sessions_loop(rows, g + 1,
                          [sessions |-> Append(state.sessions,
                                               [session_id |-> SessionIds[g],
                                                user_segment |-> user_segment,
                                                items |-> Slice(SortByPosition(list, <<>>), 6)]),
                           segment |-> user_segment]) :
             group \in sort_values(unsorted)}

\* query_sessions(): the session lists it can return for the dataframe `result`;
\* an exception of the query is printed and an empty list returned
query_sessions(result) ==
    IF result.failed THEN {<<>>}
    ELSE {LET kept == IF state.segment # "all"
                      THEN SelectSeq(state.sessions,
                                     LAMBDA x : x.user_segment = state.segment)
                      ELSE state.sessions
          IN  Slice(kept, 10) :
              state \in sessions_loop(result.rows, 1, [sessions |-> <<>>, segment |-> "all"])}

\* the JSON bodies api_sessions can answer: the list query_sessions returned
api_sessions(result) ==
    {[endpoint |-> "sessions", error |-> "", fields |-> <<>>, overall |-> <<>>,
      items |-> sessions] : sessions \in query_sessions(result)}

(***************************************************************************)
(* The data source as the handlers see it: a dataframe whose cells hold    *)
(* whatever the query produced.  A well-formed one-row result has up to    *)
(* MaxBadCells of its cells replaced.                                      *)
(***************************************************************************)
MaxBadCells == 1

\* what a ratio or an average can arrive as, and what a count or a sum can
BadRatioCells == {None, NaN, PosInf, NegInf, Zero}
BadCountCells == {None, NaN, Zero}

MetricsRow ==
    [total_sessions |-> Fin(40, 1), total_impressions |-> Fin(200, 1),
     total_clicks |-> Fin(20, 1), total_purchases |-> Fin(4, 1),
     sessions_with_clicks |-> Fin(16, 1), sessions_with_purchases |-> Fin(4, 1),
     ctr |-> Fin(10, 1), ptr |-> Fin(2, 1), conversion_rate |-> Fin(20, 1),
     recall_click_at_1 |-> Fin(10, 1), recall_click_at_5 |-> Fin(30, 1),
     recall_click_at_10 |-> Fin(40, 1), recall_purchase_at_1 |-> Fin(25, 1),
     recall_purchase_at_5 |-> Fin(50, 1), recall_purchase_at_10 |-> Fin(75, 1),
     avg_ndcg |-> Fin(5, 10)]

OptimizationRow ==
    [dimension_value |-> GroupNames[1],
     sessions |-> Fin(100, 1), total_impressions |-> Fin(400, 1),
     total_clicks |-> Fin(40, 1), total_purchases |-> Fin(4, 1),
     ctr |-> Fin(10, 1), ptr |-> Fin(1, 1), avg_ndcg |-> Fin(5, 10),
     recall_click_at_5 |-> Fin(30, 1), recall_click_at_10 |-> Fin(40, 1),
     recall_purchase_at_5 |-> Fin(50, 1), recall_purchase_at_10 |-> Fin(75, 1),
     overall_avg_ndcg |-> Fin(5, 10), overall_median_ndcg |-> Fin(5, 10),
     overall_avg_recall_click |-> Fin(40, 1), overall_median_recall_click |-> Fin(40, 1),
     overall_avg_recall_purchase |-> Fin(75, 1),
     overall_median_recall_purchase |-> Fin(75, 1),
     overall_avg_ctr |-> Fin(10, 1), overall_avg_ptr |-> Fin(1, 1)]

GmvRow == GmvDataframe(<<GmvGroup(1, Fin(1000000, 1), Fin(5, 10))>>, Fin(6, 10))[1]

TrendsRow ==
    [event_date |-> "2025-12-09",
     sessions |-> Fin(40, 1), total_impressions |-> Fin(200, 1),
     total_clicks |-> Fin(20, 1), total_purchases |-> Fin(4, 1),
     ctr |-> Fin(10, 1), ptr |-> Fin(2, 1), avg_ndcg |-> Fin(5, 10)]

BaseRow(endpoint) ==
    CASE endpoint = "metrics" -> MetricsRow
      [] endpoint = "optimization" -> OptimizationRow
      [] endpoint = "gmv_opportunity" -> GmvRow
      [] endpoint = "trends" -> TrendsRow

\* the columns holding a count or a sum; every other numeric column is a ratio,
\* an average or a quantile
CountColumns ==
    {"total_sessions", "total_impressions", "total_clicks", "total_purchases",
     "sessions_with_clicks", "sessions_with_purchases", "sessions",
     "total_gmv_usd", "total_gmv_all"}
LabelColumns == {"dimension_value", "event_date"}

\* the rows that differ from the rows of `from` in at most n more cells
RECURSIVE WithBadCells(_, _)
WithBadCells(from, n) ==
    IF n = 0 THEN from
    ELSE WithBadCells(
             from \cup UNION {{[r EXCEPT ![c] = v] :
                                   c \in CountColumns \cap DOMAIN r,
                                   v \in BadCountCells} : r \in from}
                  \cup UNION {{[r EXCEPT ![c] = v] :
                                   c \in (DOMAIN r \ CountColumns) \ LabelColumns,
                                   v \in BadRatioCells} : r \in from},
             n - 1)

\* what client.query(query).to_dataframe() can give the handler of `endpoint`:
\* an exception, no row, or one row
SourceResults(endpoint) ==
    {[endpoint |-> endpoint, failed |-> TRUE, rows |-> <<>>],
     [endpoint |-> endpoint, failed |-> FALSE, rows |-> <<>>]}
        \cup {[endpoint |-> endpoint, failed |-> FALSE, rows |-> <<r>>] :
                  r \in WithBadCells({BaseRow(endpoint)}, MaxBadCells)}

\* the rows of one session in a query_sessions dataframe: the positions seen,
\* the position clicked and purchased (0: none), and the user id
SessionGroup(sid, positions, hit, user_id) ==
    [i \in 1..Len(positions) |->
        [session_id |-> sid, position |-> positions[i], user_id |-> user_id,
         product_id |-> i,
         is_clicked |-> positions[i] = hit, has_purchase |-> positions[i] = hit]]

SessionPositions ==
    {<<1, 2, 3, 4>>, <<1, 2, 2, 3>>, <<1, 2, 2, 3, 4>>, <<1, 2, 3, 4, 5, 6, 7>>}

\* what client.query(query).to_dataframe() can give query_sessions: an
\* exception, no row, or the rows of one or two sessions ordered by session_id
\* and position
SessionsResults ==
    {[endpoint |-> "sessions", failed |-> TRUE, rows |-> <<>>],
     [endpoint |-> "sessions", failed |-> FALSE, rows |-> <<>>]}
        \cup {[endpoint |-> "sessions", failed |-> FALSE,
               rows |-> SessionGroup(SessionIds[1], p, hit, uid) \o second] :
                  p \in SessionPositions, hit \in 0..1, uid \in {0, 7},
                  second \in {<<>>, SessionGroup(SessionIds[2], <<1, 2, 3, 4>>, 2, 7)}}

InitApi ==
    /\ items = <<>>
    /\ call = NoCall
    /\ impressions = {}
    /\ request = NoRequest
    /\ upstream = NoUpstream
    /\ response = NoResponse
    /\ page = NoPage
    /\ bq_client = NoClient
    /\ handlers = NoHandlers

\* GET /api/metrics
ApiMetrics ==
    /\ response = NoResponse
    /\ \E result \in SourceResults("metrics") :
           /\ upstream' = result
           /\ response' = api_metrics(result)
    /\ request' = [endpoint |-> "metrics", dimension |-> ""]
    /\ UNCHANGED <<items, call, impressions, page, bq_client, handlers>>

\* GET /api/optimization
ApiOptimization ==
    /\ response = NoResponse
    /\ \E result \in SourceResults("optimization") :
           /\ upstream' = result
           /\ response' = api_optimization(result)
    /\ request' = [endpoint |-> "optimization", dimension |-> "module"]
    /\ UNCHANGED <<items, call, impressions, page, bq_client, handlers>>

\* GET /api/gmv_opportunity, whatever the data source returns
ApiGmvOpportunityAnyData ==
    /\ response = NoResponse
    /\ \E result \in SourceResults("gmv_opportunity") :
           /\ upstream' = result
           /\ response' = api_gmv_opportunity(result)
    /\ request' = [endpoint |-> "gmv_opportunity", dimension |-> "module"]
    /\ UNCHANGED <<items, call, impressions, page, bq_client, handlers>>

\* GET /api/trends
ApiTrends ==
    /\ response = NoResponse
    /\ \E result \in SourceResults("trends") :
           /\ upstream' = result
           /\ response' = api_trends(result)
    /\ request' = [endpoint |-> "trends", dimension |-> ""]
    /\ UNCHANGED <<items, call, impressions, page, bq_client, handlers>>

\* GET /api/sessions
ApiSessions ==
    /\ response = NoResponse
    /\ \E result \in SessionsResults :
           /\ upstream' = result
           /\ response' \in api_sessions(result)
    /\ request' = [endpoint |-> "sessions", dimension |-> ""]
    /\ UNCHANGED <<items, call, impressions, page, bq_client, handlers>>

NextApi ==
    \/ ApiMetrics
    \/ ApiOptimization
    \/ ApiGmvOpportunityAnyData
    \/ ApiTrends
    \/ ApiSessions

SpecApi == InitApi /\ [][NextApi]_vars

(***************************************************************************)
(* The api_optimization query over the impression table, CTE by CTE.       *)
(* A SQL NULL is None; dcg and idcg are fixed-point like the visualizer's. *)
(***************************************************************************)
AggSessions == {"s1", "s2"}
AggDimensions == {GroupNames[1], GroupNames[2]}
AggPositions == {1, 2, 6}
InteractionKinds ==
    {[is_clicked |-> FALSE, has_purchase |-> FALSE],
     [is_clicked |-> TRUE, has_purchase |-> FALSE],
     [is_clicked |-> TRUE, has_purchase |-> TRUE]}

\* the rows the impressions CTE can select: section_y_pos > 0 and <= 20
ImpressionRows ==
    {[session_id |-> sid, dimension_value |-> dim, position |-> pos,
      is_clicked |-> kind.is_clicked, has_purchase |-> kind.has_purchase] :
        sid \in AggSessions, dim \in AggDimensions, pos \in AggPositions,
        kind \in InteractionKinds}

\* CASE WHEN has_purchase THEN 4 WHEN is_clicked THEN 2 ELSE 0 END
SqlRelevance(row) == IF row.has_purchase THEN 4 ELSE IF row.is_clicked THEN 2 ELSE 0

\* ORDER BY relevance DESC, position ASC: q sorts strictly before r
SortsBefore(q, r) ==
    \/ SqlRelevance(q) > SqlRelevance(r)
    \/ SqlRelevance(q) = SqlRelevance(r) /\ q.position < r.position

\* ROW_NUMBER() OVER (PARTITION BY session_id ORDER BY relevance DESC, position
\* ASC) on the rows of one session: rows the ordering does not separate are
\* numbered in either order
PartitionRankings(part) ==
    {f \in [part -> 1..Cardinality(part)] :
        /\ \A q \in part : \A r \in part : q # r => f[q] # f[r]
        /\ \A q \in part : \A r \in part : SortsBefore(q, r) => f[q] < f[r]}

RECURSIVE TableRankings(_, _)
TableRankings(table, sessions) ==
    IF sessions = {} THEN {<<>>}
    ELSE LET sid == CHOOSE x \in sessions : TRUE
             part == {r \in table : r.session_id = sid}
         IN  {f @@ g : f \in PartitionRankings(part),
                       g \in TableRankings(table, sessions \ {sid})}

\* the ideal_rank columns impressions_ranked can carry
IdealRankings(table) == TableRankings(table, {r.session_id : r \in table})

RECURSIVE SetToSeq(_)
SetToSeq(S) ==
    IF S = {} THEN <<>>
    ELSE LET x == CHOOSE y \in S : TRUE IN <<x>> \o SetToSeq(S \ {x})

RECURSIVE IntSum(_)
IntSum(list) == IF list = <<>> THEN 0 ELSE Head(list) + IntSum(Tail(list))

Count(S) == Cardinality(S)

\* a plausible slip: SUM(CASE WHEN cond THEN 1 ELSE 0 END) in place of MAX
AnyRow_counted(S) == Cardinality(S)

\* MAX(CASE WHEN cond THEN 1 ELSE 0 END)
AnyRow(S) == IF S # {} THEN 1 ELSE 0

\* SAFE_DIVIDE(a, b): NULL when b is 0 or an operand is NULL
SafeDivide(a, b) ==
    IF a.kind = "none" \/ b.kind = "none" \/ b = Zero THEN None ELSE FDiv(a, b)

\* x * 100, NULL for a NULL x
Percent(x) == IF x.kind = "none" THEN None ELSE FMul(x, Hundred)

\* SAFE_DIVIDE(dcg, NULLIF(idcg, 0)) of the fixed-point sums dcg and idcg
SessionNdcg(dcg, idcg) == IF idcg = 0 THEN None ELSE Fin((dcg * Scale) \div idcg, Scale)

\* the session_metrics row of one (session_id, dimension_value) group
SessionMetricsRow(table, rank, sid, dim) ==
    LET rows == {r \in table : r.session_id = sid /\ r.dimension_value = dim}
        list == SetToSeq(rows)
    IN  [session_id |-> sid,
         dimension_value |-> dim,
         impressions |-> Count(rows),
         clicks |-> Count({r \in rows : r.is_clicked}),
         purchases |-> Count({r \in rows : r.has_purchase}),
         click_at_5 |-> AnyRow({r \in rows : r.is_clicked /\ r.position <= 5}),
         click_at_10 |-> AnyRow({r \in rows : r.is_clicked /\ r.position <= 10}),
         purchase_at_5 |-> AnyRow({r \in rows : r.has_purchase /\ r.position <= 5}),
         purchase_at_10 |-> AnyRow({r \in rows : r.has_purchase /\ r.position <= 10}),
         dcg |-> IntSum([i \in 1..Len(list) |->
                            SqlRelevance(list[i]) * InvLog2(list[i].position + 1)]),
         idcg |-> IntSum([i \in 1..Len(list) |->
                            SqlRelevance(list[i]) * InvLog2(rank[list[i]] + 1)])]

\* session_metrics: GROUP BY session_id, dimension_value
SessionMetrics(table, rank) ==
    {SessionMetricsRow(table, rank, key[1], key[2]) :
        key \in {<<r.session_id, r.dimension_value>> : r \in table}}

\* the dimension_metrics row of one dimension_value group, before HAVING
DimensionMetricsRow(metrics, dim) ==
    LET list == SetToSeq({m \in metrics : m.dimension_value = dim})
        n == Len(list)
        total(c) == Fin(IntSum([i \in 1..n |-> list[i][c]]), 1)
        buyers == Fin(Count({i \in 1..n : list[i].purchases > 0}), 1)
        rows == Fin(n, 1)
    IN  [dimension_value |-> dim,
         sessions |-> Fin(Count({list[i].session_id : i \in 1..n}), 1),
         total_impressions |-> total("impressions"),
         total_clicks |-> total("clicks"),
         total_purchases |-> total("purchases"),
         ctr |-> Percent(SafeDivide(total("clicks"), total("impressions"))),
         ptr |-> Percent(SafeDivide(total("purchases"), total("impressions"))),
         avg_ndcg |-> SqlAvg([i \in 1..n |-> SessionNdcg(list[i].dcg, list[i].idcg)]),
         recall_click_at_5 |-> Percent(SafeDivide(total("click_at_5"), rows)),
         recall_click_at_10 |-> Percent(SafeDivide(total("click_at_10"), rows)),
         recall_purchase_at_5 |-> Percent(SafeDivide(total("purchase_at_5"), buyers)),
         recall_purchase_at_10 |-> Percent(SafeDivide(total("purchase_at_10"), buyers))]

\* dimension_metrics: GROUP BY dimension_value HAVING COUNT(DISTINCT session_id)
\* >= the threshold
DimensionMetrics(metrics) ==
    {g \in {DimensionMetricsRow(metrics, dim) : dim \in {m.dimension_value : m \in metrics}} :
        g.sessions.n >= MinSessions}

\* ORDER BY avg_ndcg ASC: NULLs first
OrderedAsc(a, b) == a.kind = "none" \/ (b.kind # "none" /\ FLe(a, b))

\* the orders the dimension_metrics rows can be returned in
NdcgAscending(groups) ==
    {list \in [1..Cardinality(groups) -> groups] :
        /\ \A i \in DOMAIN list : \A j \in DOMAIN list : i # j => list[i] # list[j]
        /\ \A i \in DOMAIN list : \A j \in DOMAIN list :
               i < j => OrderedAsc(list[i].avg_ndcg, list[j].avg_ndcg)}

\* dimension_metrics CROSS JOIN overall, through to_dataframe()
OptimizationDataframe(groups, medians) ==
    [i \in 1..Len(groups) |->
        [dimension_value |-> groups[i].dimension_value,
         sessions |-> groups[i].sessions,
         total_impressions |-> groups[i].total_impressions,
         total_clicks |-> groups[i].total_clicks,
         total_purchases |-> groups[i].total_purchases,
         ctr |-> ToDataframeCell(groups[i].ctr),
         ptr |-> ToDataframeCell(groups[i].ptr),
         avg_ndcg |-> ToDataframeCell(groups[i].avg_ndcg),
         recall_click_at_5 |-> ToDataframeCell(groups[i].recall_click_at_5),
         recall_click_at_10 |-> ToDataframeCell(groups[i].recall_click_at_10),
         recall_purchase_at_5 |-> ToDataframeCell(groups[i].recall_purchase_at_5),
         recall_purchase_at_10 |-> ToDataframeCell(groups[i].recall_purchase_at_10),
         overall_avg_ndcg |-> ToDataframeCell(SqlAvg(Column(groups, "avg_ndcg"))),
         overall_median_ndcg |-> ToDataframeCell(medians[1]),
         overall_avg_recall_click |->
             ToDataframeCell(SqlAvg(Column(groups, "recall_click_at_10"))),
         overall_median_recall_click |-> ToDataframeCell(medians[2]),
         overall_avg_recall_purchase |->
             ToDataframeCell(SqlAvg(Column(groups, "recall_purchase_at_10"))),
         overall_median_recall_purchase |-> ToDataframeCell(medians[3]),
         overall_avg_ctr |-> ToDataframeCell(SqlAvg(Column(groups, "ctr"))),
         overall_avg_ptr |-> ToDataframeCell(SqlAvg(Column(groups, "ptr")))]]

\* the dataframes the api_optimization query can return for the table
OptimizationQueryResults(table) ==
    UNION {UNION {{[endpoint |-> "optimization", failed |-> FALSE,
                    rows |-> OptimizationDataframe(groups, <<m1, m2, m3>>)] :
                       m1 \in SqlMedians(Column(groups, "avg_ndcg")),
                       m2 \in SqlMedians(Column(groups, "recall_click_at_10")),
                       m3 \in SqlMedians(Column(groups, "recall_purchase_at_10"))} :
                  groups \in NdcgAscending(DimensionMetrics(SessionMetrics(table, rank)))} :
           rank \in IdealRankings(table)}

InitAgg ==
    /\ items = <<>>
    /\ call = NoCall
    /\ impressions = {}
    /\ request = NoRequest
    /\ upstream = NoUpstream
    /\ response = NoResponse
    /\ page = NoPage
    /\ bq_client = NoClient
    /\ handlers = NoHandlers

\* an impression event lands in the warehouse table
RecordImpression ==
    /\ response = NoResponse
    /\ Cardinality(impressions) < MaxRows
    /\ \E row \in ImpressionRows \ impressions : impressions' = impressions \cup {row}
    /\ UNCHANGED <<items, call, request, upstream, response, page, bq_client, handlers>>

\* GET /api/optimization?dimension=module over the table
ApiOptimizationOverTable ==
    /\ response = NoResponse
    /\ \E result \in OptimizationQueryResults(impressions) :
           /\ upstream' = result
           /\ response' = api_optimization(result)
    /\ request' = [endpoint |-> "optimization", dimension |-> "module"]
    /\ UNCHANGED <<items, call, impressions, page, bq_client, handlers>>

NextAgg ==
    \/ RecordImpression
    \/ ApiOptimizationOverTable

SpecAgg == InitAgg /\ [][NextAgg]_vars

(***************************************************************************)
(* The dimension argument of api_optimization: dim_column_map and the      *)
(* impressions CTE over the columns of the warehouse table.                *)
(***************************************************************************)

\* a NULL of a STRING column
NullString == "NULL"

\* the dimension columns an impression row can carry
ImpressionProfiles ==
    {[section_id |-> GroupNames[1], surface |-> "home", algorithm_id |-> "ranker_v2",
      user_id |-> 7, cg_sources |-> {"als", "trending"}, category |-> "Shoes"],
     [section_id |-> GroupNames[2], surface |-> "home", algorithm_id |-> NullString,
      user_id |-> 0, cg_sources |-> {"als"}, category |-> NullString],
     [section_id |-> GroupNames[2], surface |-> "search", algorithm_id |-> "ranker_v2",
      user_id |-> 7, cg_sources |-> {}, category |-> "Shoes"]}

DimPositions == {1, 4}

\* the rows of recs_impressions_enriched (joined to products_extended) that the
\* WHERE clause of the impressions CTE lets through
WarehouseRows ==
    {[session_id |-> sid, position |-> pos,
      is_clicked |-> kind.is_clicked, has_purchase |-> kind.has_purchase,
      section_id |-> prof.section_id, surface |-> prof.surface,
      algorithm_id |-> prof.algorithm_id, user_id |-> prof.user_id,
      cg_sources |-> prof.cg_sources, category |-> prof.category] :
        sid \in AggSessions, pos \in DimPositions, kind \in InteractionKinds,
        prof \in ImpressionProfiles}

\* the values of the dimension query argument
Dimensions ==
    {"surface", "module", "reranker", "cg_source", "segment", "category", "position"}

\* COALESCE(x, fallback)
Coalesce(x, fallback) == IF x = NullString THEN fallback ELSE x

\* dim_column_map.get(dimension, 'imp.section_id'), evaluated on a row; cg is the
\* element of cg_sources the row was unnested with
dim_column(dimension, row, cg) ==
    CASE dimension = "surface" -> row.surface
      [] dimension = "module" -> row.section_id
      [] dimension = "reranker" -> Coalesce(row.algorithm_id, "unknown")
      [] dimension = "cg_source" -> cg
      [] dimension = "segment" -> IF row.user_id > 0 THEN "returning" ELSE "anonymous"
      [] dimension = "category" -> Coalesce(row.category, "Uncategorized")
      [] OTHER -> row.section_id

\* the row of the impressions CTE for a warehouse row
CteRow(dimension, row, cg) ==
    [session_id |-> row.session_id,
     dimension_value |-> dim_column(dimension, row, cg),
     position |-> row.position,
     is_clicked |-> row.is_clicked,
     has_purchase |-> row.has_purchase]

\* the impressions CTE: with dimension=cg_source every row is joined to the
\* elements of its cg_sources array, otherwise it is taken once
ImpressionsCte(dimension, table) ==
    IF dimension = "cg_source"
    THEN UNION {{CteRow(dimension, row, cg) : cg \in row.cg_sources} : row \in table}
    ELSE {CteRow(dimension, row, NullString) : row \in table}

InitDim ==
    /\ items = <<>>
    /\ call = NoCall
    /\ impressions = {}
    /\ request = NoRequest
    /\ upstream = NoUpstream
    /\ response = NoResponse
    /\ page = NoPage
    /\ bq_client = NoClient
    /\ handlers = NoHandlers

\* an impression event lands in the warehouse table, at a position the session
\* has not seen yet
RecordWarehouseRow ==
    /\ response = NoResponse
    /\ Cardinality(impressions) < MaxRows
    /\ \E row \in WarehouseRows :
           /\ \A r \in impressions :
                  r.session_id # row.session_id \/ r.position # row.position
           /\ impressions' = impressions \cup {row}
    /\ UNCHANGED <<items, call, request, upstream, response, page, bq_client, handlers>>

\* GET /api/optimization?dimension=...
ApiOptimizationByDimension ==
    /\ response = NoResponse
    /\ \E dimension \in Dimensions :
           \E result \in OptimizationQueryResults(ImpressionsCte(dimension, impressions)) :
               /\ request' = [endpoint |-> "optimization", dimension |-> dimension]
               /\ upstream' = result
               /\ response' = api_optimization(result)
    /\ UNCHANGED <<items, call, impressions, page, bq_client, handlers>>

NextDim ==
    \/ RecordWarehouseRow
    \/ ApiOptimizationByDimension

SpecDim == InitDim /\ [][NextDim]_vars

(***************************************************************************)
(* tests/test_server.py, TestPositionBuckets: the position buckets.        *)
(***************************************************************************)

\* bucket_ranges: the (start, end) pairs of the five buckets
bucket_ranges == <<<<1, 3>>, <<4, 6>>, <<7, 10>>, <<11, 15>>, <<16, 20>>>>

\* expected_buckets: the labels of the five buckets
expected_buckets ==
    <<"1-3 (Top of Feed)", "4-6 (First Scroll)", "7-10 (Second Scroll)",
      "11-15 (Deep Scroll)", "16-20 (Bottom)">>

\* a plausible slip: the boundaries compared with < instead of <=
get_bucket_strict(pos) ==
    IF pos < 3 THEN expected_buckets[1]
    ELSE IF pos < 6 THEN expected_buckets[2]
    ELSE IF pos < 10 THEN expected_buckets[3]
    ELSE IF pos < 15 THEN expected_buckets[4]
    ELSE expected_buckets[5]

\* get_bucket(pos): the Python equivalent of the SQL CASE statement
get_bucket(pos) ==
    IF pos <= 3 THEN expected_buckets[1]
    ELSE IF pos <= 6 THEN expected_buckets[2]
    ELSE IF pos <= 10 THEN expected_buckets[3]
    ELSE IF pos <= 15 THEN expected_buckets[4]
    ELSE expected_buckets[5]

InitBucket ==
    /\ items = <<>>
    /\ call = NoCall
    /\ impressions = {}
    /\ request = NoRequest
    /\ upstream = NoUpstream
    /\ response = NoResponse
    /\ page = NoPage
    /\ bq_client = NoClient
    /\ handlers = NoHandlers

CallGetBucket ==
    \E pos \in 1..MaxBucketPos :
        /\ call' = [op |-> "get_bucket", k |-> 0, graded |-> TRUE,
                    index |-> pos, outcome |-> Return(get_bucket(pos))]
        /\ UNCHANGED <<items, impressions, request, upstream, response, page, bq_client, handlers>>

NextBucket == CallGetBucket

SpecBucket == InitBucket /\ [][NextBucket]_vars

(***************************************************************************)
(* The module-level safe_float of tools/ndcg_server.py over every kind of  *)
(* argument: floats as above, an int n as [kind |-> "int", n |-> n], an    *)
(* int beyond the range of a double (|n| >= 2^1024) as "hugeint" with its  *)
(* sign, text that float() rejects as "text", and an object float() does   *)
(* not accept as "object".                                                 *)
(***************************************************************************)

MaxMagnitude == 8

PyInt(n) == [kind |-> "int", n |-> n, d |-> 1]
HugeInt(sign) == [kind |-> "hugeint", n |-> sign, d |-> 1]
Text == [kind |-> "text", n |-> 0, d |-> 1]
Object == [kind |-> "object", n |-> 0, d |-> 1]

\* safe_float(val, default): the value returned or the exception that leaves
\* the function; the except clause names TypeError and ValueError
safe_float_outcome(val, default) ==
    IF val.kind = "none" THEN Return(default)
    ELSE LET f == py_float(val)
         IN  IF f.raised # "none"
             THEN IF f.raised \in {"TypeError", "ValueError"} THEN Return(default) ELSE f
             ELSE IF f.value.kind \in {"nan", "inf", "ninf"} THEN Return(default)
             ELSE f

FiniteInputs ==
    {PyInt(n) : n \in -MaxMagnitude..MaxMagnitude}
        \cup {HugeInt(1), HugeInt(-1)}
        \cup {Fin(n, d) : n \in -MaxMagnitude..MaxMagnitude, d \in {1, 2, 4}}

SafeFloatInputs == FiniteInputs \cup {None, NaN, PosInf, NegInf, Text, Object}

SafeFloatDefaults == {None, Zero}

InitFloat ==
    /\ items = <<>>
    /\ call = NoCall
    /\ impressions = {}
    /\ request = NoRequest
    /\ upstream = NoUpstream
    /\ response = NoResponse
    /\ page = NoPage
    /\ bq_client = NoClient
    /\ handlers = NoHandlers

CallSafeFloat ==
    \E val \in SafeFloatInputs, default \in SafeFloatDefaults :
        /\ call' = [op |-> "safe_float", val |-> val, default |-> default,
                    outcome |-> safe_float_outcome(val, default)]
        /\ UNCHANGED <<items, impressions, request, upstream, response, page, bq_client, handlers>>

NextFloat == CallSafeFloat

SpecFloat == InitFloat /\ [][NextFloat]_vars

(***************************************************************************)
(* get_bq_client of tools/ndcg_server.py, called by the handlers of the    *)
(* threaded server.  A client object is its number in order of             *)
(* construction; a handler may be suspended between any two steps.         *)
(***************************************************************************)

\* the clients constructed so far that the global or a handler still holds
Constructed ==
    ({handlers[h].created : h \in Handlers} \cup {handlers[h].returned : h \in Handlers}
        \cup {bq_client}) \ {NoClient}

\* the object bigquery.Client() returns: a new one
NewClient == 1 + CHOOSE c \in Constructed \cup {NoClient} : \A d \in Constructed : d <= c

InitClient ==
    /\ items = <<>>
    /\ call = NoCall
    /\ impressions = {}
    /\ request = NoRequest
    /\ upstream = NoUpstream
    /\ response = NoResponse
    /\ page = NoPage
    /\ bq_client = NoClient
    /\ handlers = NoHandlers

\* if bq_client is None:
CheckClient(h) ==
    /\ handlers[h].pc = "idle"
    /\ handlers' = [handlers EXCEPT ![h].pc =
                        IF bq_client = NoClient THEN "construct" ELSE "return"]
    /\ UNCHANGED <<items, call, impressions, request, upstream, response, page, bq_client>>

\* bigquery.Client()
ConstructClient(h) ==
    /\ handlers[h].pc = "construct"
    /\ handlers' = [handlers EXCEPT ![h].pc = "assign",
                                    ![h].created = NewClient]
    /\ UNCHANGED <<items, call, impressions, request, upstream, response, page, bq_client>>

\* bq_client = <the new client>
AssignClient(h) ==
    /\ handlers[h].pc = "assign"
    /\ bq_client' = handlers[h].created
    /\ handlers' = [handlers EXCEPT ![h].pc = "return"]
    /\ UNCHANGED <<items, call, impressions, request, upstream, response, page>>

\* return bq_client
ReturnClient(h) ==
    /\ handlers[h].pc = "return"
    /\ handlers' = [handlers EXCEPT ![h].pc = "idle", ![h].returned = bq_client]
    /\ UNCHANGED <<items, call, impressions, request, upstream, response, page, bq_client>>

NextClient ==
    \/ \E h \in Handlers : CheckClient(h)
    \/ \E h \in Handlers : ConstructClient(h)
    \/ \E h \in Handlers : AssignClient(h)
    \/ \E h \in Handlers : ReturnClient(h)

SpecClient == InitClient /\ [][NextClient]_vars

(***************************************************************************)
(* The dashboard script served by tools/ndcg_server.py: formatCurrency and *)
(* loadGmvOpportunity.  A card holds the amount handed to formatCurrency   *)
(* and the text it is shown as.                                            *)
(***************************************************************************)

\* x || 0 on a JSON number
JsOrZero(x) == IF x.kind \in {"none", "nan"} \/ x = Zero THEN Zero ELSE x

\* amount.toFixed(...) after scaling: the nearest integer to n / d, for n >= 0
RoundedQuotient(n, d) == (2 * n + d) \div (2 * d)

\* formatCurrency(amount) for a finite amount >= 0: the unit suffix and the
\* digits of toFixed, as the number of hundredths (tenths for K) of the unit;
\* amount >= 10^k exactly when its integer part is
formatCurrency(amount) ==
    LET whole == amount.n \div amount.d
    IN  IF whole >= 1000000000
        THEN [unit |-> "B", decimals |-> 2,
              digits |-> RoundedQuotient(amount.n \div 10000000, amount.d)]
        ELSE IF whole >= 1000000
        THEN [unit |-> "M", decimals |-> 2,
              digits |-> RoundedQuotient(amount.n \div 10000, amount.d)]
        ELSE IF whole >= 1000
        THEN [unit |-> "K", decimals |-> 1,
              digits |-> RoundedQuotient(amount.n \div 100, amount.d)]
        ELSE [unit |-> "", decimals |-> 2, digits |-> RoundedQuotient(amount.n * 100, amount.d)]

Card(amount) == [amount |-> amount, text |-> formatCurrency(amount)]

\* parseInt(daysBack) || 7
daysBackVal(daysBack) == IF daysBack = 0 THEN 7 ELSE daysBack

\* a plausible slip: the factor inverted
annualFactor_inverted(daysBack) == Fin(daysBackVal(daysBack), 365)

\* 365 / daysBackVal
annualFactor(daysBack) == Fin(365, daysBackVal(daysBack))

\* [...data.items].sort((a, b) => bOpp - aOpp): a stable sort, descending in
\* gmv_opp_07 (the annual factor is positive)
RECURSIVE InsertByOpp07(_, _)
InsertByOpp07(x, sortedList) ==
    IF sortedList = <<>> THEN <<x>>
    ELSE IF FLt(JsOrZero(Head(sortedList).gmv_opp_07), JsOrZero(x.gmv_opp_07))
         THEN <<x>> \o sortedList
         ELSE <<Head(sortedList)>> \o InsertByOpp07(x, Tail(sortedList))

RECURSIVE SortByOpp07(_, _)
SortByOpp07(list, done) ==
    IF list = <<>> THEN done
    ELSE SortByOpp07(Tail(list), InsertByOpp07(Head(list), done))

\* the table row of an item
GmvTableRow(item, daysBack) ==
    [dimension_value |-> item.dimension_value,
     gmv_usd |-> Card(item.gmv_usd),
     gmv_opp_07 |-> item.gmv_opp_07,
     annualOpp07 |-> IF FGt(item.gmv_opp_07, Zero)
                     THEN FMul(item.gmv_opp_07, annualFactor(daysBack))
                     ELSE Zero]

\* loadGmvOpportunity(): the page after the response `data` arrived
loadGmvOpportunity(data, daysBack) ==
    IF data.error # "" THEN
        [view |-> "gmv", error |-> data.error, cards |-> <<>>, rows |-> <<>>]
    ELSE
        LET sortedItems == SortByOpp07(data.items, <<>>)
            period(f) == JsOrZero(data.fields[f])
            annual(f) == FMul(period(f), annualFactor(daysBack))
        IN  [view |-> "gmv",
             error |-> "",
             cards |-> [gmv_total |-> Card(JsOrZero(data.overall.total_gmv)),
                        gmv_opp_06 |-> Card(period("total_opp_06")),
                        gmv_opp_07 |-> Card(period("total_opp_07")),
                        gmv_opp_08 |-> Card(period("total_opp_08")),
                        gmv_opp_06_annual |-> Card(annual("total_opp_06")),
                        gmv_opp_07_annual |-> Card(annual("total_opp_07")),
                        gmv_opp_08_annual |-> Card(annual("total_opp_08"))],
             rows |-> [i \in 1..Len(sortedItems) |-> GmvTableRow(sortedItems[i], daysBack)]]

\* the values of the days-back input of the GMV tab (0: parsed as falsy)
DaysBackInputs == {0, 1, 7, 30}

\* the dataframes behind the pages: one or two groups
PageGmvCells == {Zero, Fin(40000, 1), Fin(100000, 1)}
PageNdcgCells == {Fin(3, 10), Fin(36, 100), Fin(5, 10), Fin(7, 10)}

PageGmvResults ==
    {[endpoint |-> "gmv_opportunity", failed |-> TRUE, rows |-> <<>>],
     [endpoint |-> "gmv_opportunity", failed |-> FALSE, rows |-> <<>>]}
        \cup UNION {UNION {{[endpoint |-> "gmv_opportunity", failed |-> FALSE,
                             rows |-> GmvDataframe(groups, median)] :
                                median \in SqlMedians(Column(groups, "avg_ndcg"))} :
                           groups \in {[i \in 1..n |-> GmvGroup(i, gmv[i], ndcg[i])] :
                                          gmv \in {g \in [1..n -> PageGmvCells] :
                                                      \A i \in 1..n : \A j \in (i + 1)..n :
                                                          FGe(g[i], g[j])},
                                          ndcg \in [1..n -> PageNdcgCells]}} :
                    n \in 1..2}

(***************************************************************************)
(* loadTrends of the dashboard script, over the response of api_trends.    *)
(* The query orders the rows by event_date ASC; a date is its day number.  *)
(***************************************************************************)

MaxDays == 15

\* a / b in JavaScript: a zero divisor gives NaN or an infinity
JsDiv(a, b) ==
    IF b = Zero /\ a.kind = "fin"
    THEN IF a.n > 0 THEN PosInf ELSE IF a.n < 0 THEN NegInf ELSE NaN
    ELSE FDiv(a, b)

\* list.slice(0, n)
slice_first(list, n) == SubSeq(list, 1, IF Len(list) < n THEN Len(list) ELSE n)

\* a plausible slip: slice(n), what follows the first n entries
slice_after(list, n) == SubSeq(list, (IF Len(list) < n THEN Len(list) ELSE n) + 1, Len(list))

\* list.slice(-n)
slice_last(list, n) == SubSeq(list, (IF Len(list) < n THEN 0 ELSE Len(list) - n) + 1, Len(list))

\* list.reduce((s, d) => s + d[field], 0)
RECURSIVE reduce_sum(_, _, _)
reduce_sum(list, field, s) ==
    IF list = <<>> THEN s ELSE reduce_sum(Tail(list), field, FAdd(s, Head(list)[field]))

\* list.reduce(...) / list.length
js_mean(list, field) == JsDiv(reduce_sum(list, field, Zero), Fin(Len(list), 1))

\* (last - first) / first * 100
js_change(first, last) == FMul(JsDiv(FSub(last, first), first), Hundred)

\* loadTrends(): the page after the response `data` arrived
loadTrends(data) ==
    IF data.error # "" THEN
        [view |-> "trends", error |-> data.error, cards |-> <<>>, rows |-> <<>>]
    ELSE IF Len(data.items) = 0 THEN
        [view |-> "trends", error |-> "No trend data available", cards |-> <<>>, rows |-> <<>>]
    ELSE
        LET firstWeek == slice_first(data.items, 7)
            lastWeek == slice_last(data.items, 7)
        IN  [view |-> "trends",
             error |-> "",
             cards |-> [trend_ndcg_change |->
                            js_change(js_mean(firstWeek, "ndcg"), js_mean(lastWeek, "ndcg")),
                        trend_ctr_change |->
                            js_change(js_mean(firstWeek, "ctr"), js_mean(lastWeek, "ctr")),
                        trend_ndcg_avg |-> js_mean(data.items, "ndcg"),
                        trend_ctr_avg |-> js_mean(data.items, "ctr")],
             rows |-> <<>>]

\* the daily rows: avg_ndcg and ctr at one level up to a day and at another
\* after it (NULL: a day whose sessions all have IDCG 0)
TrendNdcgLevels == {None, Fin(2, 10), Fin(5, 10)}
TrendCtrLevels == {<<Fin(10, 1), Fin(10, 1)>>, <<Fin(10, 1), Fin(20, 1)>>, <<None, Fin(10, 1)>>}

TrendsSeries(n, change_day, a, b, ctr) ==
    [i \in 1..n |-> [TrendsRow EXCEPT !.event_date = i,
                                      !.avg_ndcg = IF i <= change_day THEN a ELSE b,
                                      !.ctr = IF i <= change_day THEN ctr[1] ELSE ctr[2]]]

PageTrendsResults ==
    {[endpoint |-> "trends", failed |-> TRUE, rows |-> <<>>]}
        \cup UNION {{[endpoint |-> "trends", failed |-> FALSE,
                      rows |-> TrendsSeries(n, change_day, a, b, ctr)] :
                        change_day \in 0..n, a \in TrendNdcgLevels, b \in TrendNdcgLevels,
                        ctr \in TrendCtrLevels} :
                    n \in 0..MaxDays}

InitPage ==
    /\ items = <<>>
    /\ call = NoCall
    /\ impressions = {}
    /\ request = NoRequest
    /\ upstream = NoUpstream
    /\ response = NoResponse
    /\ page = NoPage
    /\ bq_client = NoClient
    /\ handlers = NoHandlers

\* the GMV tab is refreshed: the script fetches /api/gmv_opportunity and renders
\* the answer
LoadGmvOpportunity ==
    /\ page = NoPage
    /\ \E daysBack \in DaysBackInputs : \E result \in PageGmvResults :
           /\ request' = [endpoint |-> "gmv_opportunity", dimension |-> "module",
                          days_back |-> daysBack]
           /\ upstream' = result
           /\ response' = api_gmv_opportunity(result)
           /\ page' = loadGmvOpportunity(api_gmv_opportunity(result), daysBack)
    /\ UNCHANGED <<items, call, impressions, bq_client, handlers>>

\* the trends tab is refreshed: the script fetches /api/trends and renders the
\* summary
LoadTrends ==
    /\ page = NoPage
    /\ \E result \in PageTrendsResults :
           /\ request' = [endpoint |-> "trends", dimension |-> "", days_back |-> MaxDays]
           /\ upstream' = result
           /\ response' = api_trends(result)
           /\ page' = loadTrends(api_trends(result))
    /\ UNCHANGED <<items, call, impressions, bq_client, handlers>>

NextPage ==
    \/ LoadGmvOpportunity
    \/ LoadTrends

SpecPage == InitPage /\ [][NextPage]_vars

(***************************************************************************)
(* Properties of the visualizer functions.                                 *)
(***************************************************************************)

\* both interaction flags are present in the item
HasFlags(item) == HasKey(item, "clicked") /\ HasKey(item, "purchased")

WellFormed(list) == \A i \in 1..Len(list) : HasFlags(list[i])

\* the relevance grade of the data model's table
RelevanceGrade(clicked, purchased, graded) ==
    CASE purchased /\ graded -> 4
      [] purchased /\ ~graded -> 1
      [] ~purchased /\ clicked /\ graded -> 2
      [] OTHER -> 0

GradeOf(item, graded) == RelevanceGrade(item.clicked, item.purchased, graded)

Min(a, b) == IF a < b THEN a ELSE b

\* sum over the indices idx of grade(list[i]) / log2(i + 1)
RECURSIVE DiscountedGainSum(_, _, _)
DiscountedGainSum(list, idx, graded) ==
    IF idx = {} THEN 0
    ELSE LET i == CHOOSE j \in idx : TRUE IN
         GradeOf(list[i], graded) * InvLog2(i + 1)
             + DiscountedGainSum(list, idx \ {i}, graded)

\* the same items with every position field mirrored within 1..MaxPos
Repositioned(list) ==
    [i \in 1..Len(list) |->
        [list[i] EXCEPT !.position = MaxPos + 1 - list[i].position]]

\* C1: for every list of records carrying both flags, every cutoff k >= 0 and
\* both modes, calculate_ndcg returns a value between 0 and 1, also when k is
\* larger than the list.
C1_NdcgInUnitInterval ==
    (call.op = "calculate_ndcg" /\ WellFormed(items)) =>
        /\ call.outcome.raised = "none"
        /\ 0 <= call.outcome.value
        /\ call.outcome.value <= Scale

C1_Witness ==
    /\ call.op = "calculate_ndcg"
    /\ WellFormed(items)
    /\ Len(items) >= 2
    /\ call.k > Len(items)
    /\ call.outcome.raised = "none"
    /\ 0 < call.outcome.value
    /\ call.outcome.value < Scale

\* C2: get_relevance_score is defined on the four (clicked, purchased)
\* combinations: graded 4 if purchased, 2 if clicked and not purchased, 0
\* otherwise; binary 1 if purchased, 0 otherwise.
C2_RelevanceTable ==
    (call.op = "get_relevance_score" /\ HasFlags(items[call.index])) =>
        LET item == items[call.index] IN
        call.outcome =
            Return(IF call.graded
                   THEN (IF item.purchased THEN 4 ELSE IF item.clicked THEN 2 ELSE 0)
                   ELSE (IF item.purchased THEN 1 ELSE 0))

C2_Witness ==
    /\ call.op = "get_relevance_score"
    /\ HasFlags(items[call.index])
    /\ items[call.index].purchased
    /\ items[call.index].clicked
    /\ call.graded
    /\ call.outcome = Return(4)

\* C3: calculate_dcg is the sum over i = 1..min(k, len) of relevance(items[i])
\* / log2(i + 1), i the index in the given order; the position field does not
\* affect it; an empty list gives 0.
C3_DcgIsPrefixSum ==
    (call.op = "calculate_dcg" /\ WellFormed(items)) =>
        /\ call.outcome =
               Return(DiscountedGainSum(items, 1..Min(call.k, Len(items)), call.graded))
        /\ calculate_dcg(Repositioned(items), call.k, call.graded) = call.outcome
        /\ (items = <<>> => call.outcome = Return(0))

C3_Witness ==
    /\ call.op = "calculate_dcg"
    /\ WellFormed(items)
    /\ Len(items) = 3
    /\ call.k = 2
    /\ items[1].position > 1
    /\ items[2].position > 2
    /\ GradeOf(items[2], call.graded) > 0
    /\ GradeOf(items[3], call.graded) > 0
    /\ call.outcome.value > 0

\* C4: calculate_ndcg returns exactly 0, and raises no division error, whenever
\* the ideal DCG is 0: for every list without a record of positive relevance in
\* the chosen mode, for every k.
C4_NdcgZeroWhenIdcgZero ==
    (/\ call.op = "calculate_ndcg"
     /\ WellFormed(items)
     /\ \/ \A i \in 1..Len(items) : GradeOf(items[i], call.graded) = 0
        \/ calculate_idcg(items, call.k, call.graded) = Return(0)) =>
        call.outcome = Return(0)

C4_Witness ==
    /\ call.op = "calculate_ndcg"
    /\ WellFormed(items)
    /\ Len(items) >= 2
    /\ call.k >= 1
    /\ ~call.graded
    /\ \E i \in 1..Len(items) : items[i].clicked
    /\ \A i \in 1..Len(items) : GradeOf(items[i], call.graded) = 0
    /\ call.outcome = Return(0)

\* C5: get_ideal_ranking returns a permutation of its input, ordered by
\* relevance descending, records of equal relevance in their input order.
C5_IdealRankingStablePermutation ==
    (call.op = "get_ideal_ranking" /\ WellFormed(items)) =>
        /\ call.outcome.raised = "none"
        /\ LET ideal == call.outcome.value
               n == Len(items)
           IN  /\ Len(ideal) = n
               /\ \E p \in Permutations(1..n) :
                      /\ \A i \in 1..n : ideal[i] = items[p[i]]
                      /\ \A i \in 1..n : \A j \in (i + 1)..n :
                             /\ GradeOf(ideal[i], call.graded) >= GradeOf(ideal[j], call.graded)
                             /\ GradeOf(ideal[i], call.graded) = GradeOf(ideal[j], call.graded)
                                    => p[i] < p[j]

C5_Witness ==
    /\ call.op = "get_ideal_ranking"
    /\ WellFormed(items)
    /\ Len(items) = 3
    /\ call.graded
    /\ GradeOf(items[1], TRUE) = 2
    /\ GradeOf(items[2], TRUE) = 4
    /\ GradeOf(items[3], TRUE) = 2
    /\ call.outcome.raised = "none"
    /\ call.outcome.value = <<items[2], items[1], items[3]>>

\* C8: a record lacking both the clicked and the purchased field scores 0 and
\* raises no error in either mode, so every function completes normally on a
\* list containing such records.
C8_MissingFlagsScoreZero ==
    (/\ call.op # "none"
     /\ \A i \in 1..Len(items) : HasFlags(items[i]) \/ DOMAIN items[i] = {"position"}) =>
        /\ call.outcome.raised = "none"
        /\ (call.op = "get_relevance_score" /\ ~HasFlags(items[call.index]))
               => call.outcome = Return(0)

(***************************************************************************)
(* Properties of the GMV opportunity model.                                *)
(***************************************************************************)

\* the response fields holding the opportunity at the fixed targets 0.6, 0.7, 0.8
TargetFields ==
    {[field |-> "gmv_opp_06", n |-> 6, d |-> 10],
     [field |-> "gmv_opp_07", n |-> 7, d |-> 10],
     [field |-> "gmv_opp_08", n |-> 8, d |-> 10]}

GmvAnswered == response.endpoint = "gmv_opportunity" /\ response.error = ""

C7_AbsoluteGapOpportunity ==
    GmvAnswered =>
        \A i \in 1..Len(response.items) : \A t \in TargetFields :
            LET item == response.items[i]
                c == item.avg_ndcg
                g == item.gmv_usd
                opp == item[t.field]
            IN  (c.n > 0 /\ c.n * t.d < t.n * c.d) =>
                    /\ opp.n * c.d * t.d * 2 * g.d
                           = opp.d * g.n * (t.n * c.d - c.n * t.d) * 3
                    /\ (c = Fin(5, 10) /\ g = Fin(1000000, 1) /\ t.field = "gmv_opp_07")
                           => opp = Fin(300000, 1)
                    /\ (c = Fin(4, 10) /\ g = Fin(1000000, 1) /\ t.field = "gmv_opp_06")
                           => opp = Fin(300000, 1)

(***************************************************************************)
(* Properties of the JSON responses.                                       *)
(***************************************************************************)

\* every number of a JSON body: its top-level fields, its overall record and
\* the numeric fields of its items
ResponseNumbers(body) ==
    {body.fields[f] : f \in DOMAIN body.fields}
        \cup {body.overall[f] : f \in DOMAIN body.overall}
        \cup UNION {{body.items[i][f] : f \in DOMAIN body.items[i] \ {"dimension_value", "date"}} :
                        i \in 1..Len(body.items)}

\* C9: every numeric field of the responses of api_metrics, api_optimization,
\* api_gmv_opportunity and api_trends is finite or a defined default (0 or
\* null), whatever the data source returns for the ratio and average columns:
\* NULL, NaN, +Infinity, -Infinity.
C9_ResponsesFinite ==
    response.endpoint \in {"metrics", "optimization", "gmv_opportunity", "trends"} =>
        \A v \in ResponseNumbers(response) : v.kind \in {"fin", "none"}

(***************************************************************************)
(* Properties of the aggregation query.                                    *)
(***************************************************************************)

\* the NDCG of a session_metrics row, a list without a relevant item scoring 0
ListNdcg(m) == IF m.idcg = 0 THEN Zero ELSE Fin((m.dcg * Scale) \div m.idcg, Scale)

\* the mean of ListNdcg over every list of the group `dim`
MeanOverAllLists(metrics, dim) ==
    LET lists == SetToSeq({m \in metrics : m.dimension_value = dim})
    IN  FDiv(FSum([j \in 1..Len(lists) |-> ListNdcg(lists[j])]), Fin(Len(lists), 1))

\* C10: a group's avg_ndcg is the arithmetic mean of the per-list NDCG over all
\* the lists of the group, a list with idcg = 0 having NDCG 0 and counting in
\* the denominator of the mean.
C10_AvgNdcgCountsEveryList ==
    (response.endpoint = "optimization" /\ response.error = "" /\ impressions # {}) =>
        \E rank \in IdealRankings(impressions) :
            \A i \in 1..Len(response.items) :
                response.items[i].avg_ndcg
                    = MeanOverAllLists(SessionMetrics(impressions, rank),
                                       response.items[i].dimension_value)

\* the ideal DCG of a sub-list ranked on its own: ranks 1..m by relevance
\* descending within the m impressions of the sub-list
SubListIdcg(rows) ==
    LET rank == CHOOSE f \in PartitionRankings(rows) : TRUE
        list == SetToSeq(rows)
    IN  IntSum([i \in 1..Len(list) |->
                   SqlRelevance(list[i]) * InvLog2(rank[list[i]] + 1)])

\* the NDCG sub-scores of the group `dim`, one per session, each DCG/IDCG over
\* only the session's impressions that carry `dim`
SubListNdcgs(table, dim) ==
    LET sessions == SetToSeq({r.session_id : r \in {q \in table : q.dimension_value = dim}})
    IN  [i \in 1..Len(sessions) |->
            LET rows == {r \in table : r.session_id = sessions[i] /\ r.dimension_value = dim}
                list == SetToSeq(rows)
            IN  SessionNdcg(IntSum([j \in 1..Len(list) |->
                                      SqlRelevance(list[j]) * InvLog2(list[j].position + 1)]),
                            SubListIdcg(rows))]

\* C11: the NDCG sub-score of each (session, dimension value) pair is DCG/IDCG
\* over only that session's impressions carrying the value, the ideal ranks
\* 1..m assigned by relevance descending within that sub-list; the group's
\* avg_ndcg is the average of these sub-scores.
C11_SubScoreRankedWithinSubList ==
    (response.endpoint = "optimization" /\ response.error = "" /\ impressions # {}) =>
        \A i \in 1..Len(response.items) :
            response.items[i].avg_ndcg
                = local_safe_float(ToDataframeCell(
                      SqlAvg(SubListNdcgs(impressions, response.items[i].dimension_value))))

\* the dimension_metrics rows of every group, those under the threshold too
AllGroups(metrics) ==
    SetToSeq({DimensionMetricsRow(metrics, dim) : dim \in {m.dimension_value : m \in metrics}})

\* the overall average NDCG when the sessions of every group count: as the
\* average of the group averages, as the average of the per-list NDCG that are
\* defined, or as the average of the per-list NDCG with 0 for idcg = 0
OverallNdcgOfAllSessions(metrics) ==
    LET lists == SetToSeq(metrics) IN
    {SqlAvg(Column(AllGroups(metrics), "avg_ndcg")),
     SqlAvg([i \in 1..Len(lists) |-> SessionNdcg(lists[i].dcg, lists[i].idcg)]),
     SqlAvg([i \in 1..Len(lists) |-> ListNdcg(lists[i])])}

\* C12: a group with fewer sessions than the threshold is absent from the
\* items, but its sessions are still included in the overall record.
C12_SmallGroupsInOverall ==
    (response.endpoint = "optimization" /\ response.error = "" /\ impressions # {}) =>
        /\ \A i \in 1..Len(response.items) : response.items[i].sessions.n >= MinSessions
        /\ \E rank \in IdealRankings(impressions) :
               \E avg \in OverallNdcgOfAllSessions(SessionMetrics(impressions, rank)) :
                   response.overall.avg_ndcg = local_safe_float(ToDataframeCell(avg))

(***************************************************************************)
(* Properties of the handlers' error outcomes.                             *)
(***************************************************************************)

\* the bodies the handler of `endpoint` can answer for the dataframe `result`
ResponseTo(endpoint, result) ==
    CASE endpoint = "sessions" -> api_sessions(result)
      [] endpoint = "metrics" -> {api_metrics(result)}
      [] endpoint = "optimization" -> {api_optimization(result)}
      [] endpoint = "gmv_opportunity" -> {api_gmv_opportunity(result)}
      [] endpoint = "trends" -> {api_trends(result)}

\* C13: when the data-source query fails, the caller of api_sessions,
\* api_metrics, api_optimization, api_gmv_opportunity and api_trends receives
\* an explicit error outcome, different from the outcome of a query that
\* succeeds and returns no rows.
C13_FailureDiffersFromNoRows ==
    (upstream.endpoint # "none" /\ upstream.failed) =>
        /\ response.error # ""
        /\ response \notin ResponseTo(upstream.endpoint,
                                 [endpoint |-> upstream.endpoint, failed |-> FALSE,
                                  rows |-> <<>>])

(***************************************************************************)
(* Properties of the position buckets.                                     *)
(***************************************************************************)

\* the five bucket labels, bare and as the dashboard captions them
BucketLabels ==
    {"1-3", "4-6", "7-10", "11-15", "16-20",
     "1-3 (Top of Feed)", "4-6 (First Scroll)", "7-10 (Second Scroll)",
     "11-15 (Deep Scroll)", "16-20 (Bottom)"}

\* C14: with dimension=position the impressions are grouped by position bucket:
\* every returned dimension_value is one of the five bucket labels and no
\* group is keyed by a section id.
C14_PositionGroupsAreBuckets ==
    (/\ request.endpoint = "optimization"
     /\ request.dimension = "position"
     /\ response.error = "") =>
        \A i \in 1..Len(response.items) :
            response.items[i].dimension_value \in BucketLabels

\* the buckets whose range holds pos
BucketsHolding(pos) ==
    {b \in 1..Len(bucket_ranges) : bucket_ranges[b][1] <= pos /\ pos <= bucket_ranges[b][2]}

C16_IdcgOrderInvariant ==
    call.op = "calculate_idcg" =>
        \A p \in Permutations(1..Len(items)) :
            calculate_idcg(Permuted(items, p), call.k, call.graded) = call.outcome

C16_Witness ==
    /\ call.op = "calculate_idcg"
    /\ WellFormed(items)
    /\ Len(items) = 3
    /\ call.k = 2
    /\ call.graded
    /\ GradeOf(items[1], TRUE) = 0
    /\ GradeOf(items[2], TRUE) = 2
    /\ GradeOf(items[3], TRUE) = 4
    /\ call.outcome = Return(4 * InvLog2(2) + 2 * InvLog2(3))

\* C17: scoring the ideal order is perfect: for every list, k >= 1 and mode
\* with calculate_idcg > 0, calculate_ndcg of get_ideal_ranking(list) is 1, and
\* calculate_dcg of a relevance-descending list equals its calculate_idcg.
C17_IdealOrderScoresOne ==
    (call.op = "get_ideal_ranking" /\ WellFormed(items)) =>
        \A k \in 1..MaxK :
            /\ calculate_idcg(items, k, call.graded).value > 0 =>
                   calculate_ndcg(call.outcome.value, k, call.graded) = Return(Scale)
            /\ calculate_dcg(call.outcome.value, k, call.graded)
                   = calculate_idcg(call.outcome.value, k, call.graded)

C17_Witness ==
    /\ call.op = "get_ideal_ranking"
    /\ WellFormed(items)
    /\ Len(items) = 3
    /\ call.outcome.raised = "none"
    /\ call.outcome.value # items
    /\ calculate_idcg(items, 2, call.graded).value > 0
    /\ calculate_ndcg(items, 2, call.graded).value < Scale
    /\ calculate_ndcg(call.outcome.value, 2, call.graded) = Return(Scale)

\* the list with the records at indices i and j exchanged
Swapped(list, i, j) ==
    [n \in 1..Len(list) |-> IF n = i THEN list[j] ELSE IF n = j THEN list[i] ELSE list[n]]

\* C18: swapping the records at indices i < j, the one at j of strictly higher
\* relevance than the one at i, gives a calculate_dcg value greater than or
\* equal to the value before the swap, for every list, k and mode.
C18_DcgMonotoneUnderSwap ==
    (call.op = "calculate_dcg" /\ WellFormed(items)) =>
        \A i \in 1..Len(items) : \A j \in (i + 1)..Len(items) :
            GradeOf(items[j], call.graded) > GradeOf(items[i], call.graded) =>
                LET swapped == calculate_dcg(Swapped(items, i, j), call.k, call.graded)
                IN  /\ swapped.raised = "none"
                    /\ swapped.value >= call.outcome.value

C18_Witness ==
    /\ call.op = "calculate_dcg"
    /\ WellFormed(items)
    /\ Len(items) = 3
    /\ call.k = 3
    /\ GradeOf(items[1], call.graded) > 0
    /\ GradeOf(items[3], call.graded) > GradeOf(items[1], call.graded)
    /\ calculate_dcg(Swapped(items, 1, 3), call.k, call.graded).value > call.outcome.value

Apply(op, list, k, graded) ==
    CASE op = "calculate_dcg" -> calculate_dcg(list, k, graded)
      [] op = "calculate_idcg" -> calculate_idcg(list, k, graded)
      [] op = "calculate_ndcg" -> calculate_ndcg(list, k, graded)

\* the list with its clicked flags replaced
WithClicked(list, flags) == [i \in 1..Len(list) |-> [list[i] EXCEPT !.clicked = flags[i]]]

\* C20: binary scoring considers only purchases: two lists identical except
\* for clicked flags get identical calculate_dcg, calculate_idcg and
\* calculate_ndcg values with graded=False, and a clicked-but-not-purchased
\* record contributes 0.
C20_BinaryIgnoresClicks ==
    /\ (/\ call.op \in {"calculate_dcg", "calculate_idcg", "calculate_ndcg"}
        /\ ~call.graded
        /\ WellFormed(items)) =>
           \A flags \in [1..Len(items) -> BOOLEAN] :
               Apply(call.op, WithClicked(items, flags), call.k, FALSE) = call.outcome
    /\ (/\ call.op = "get_relevance_score"
        /\ ~call.graded
        /\ HasFlags(items[call.index])
        /\ items[call.index].clicked
        /\ ~items[call.index].purchased) =>
           call.outcome = Return(0)

C20_Witness ==
    /\ call.op = "calculate_ndcg"
    /\ ~call.graded
    /\ WellFormed(items)
    /\ Len(items) = 3
    /\ call.k = 3
    /\ items[1].clicked /\ ~items[1].purchased
    /\ items[2].purchased
    /\ call.outcome.raised = "none"
    /\ 0 < call.outcome.value
    /\ call.outcome.value < Scale

(***************************************************************************)
(* Properties of query_sessions.                                           *)
(***************************************************************************)

\* the first row of the dataframe for the session and the position
FirstArrival(rows, sid, pos) ==
    rows[CHOOSE i \in 1..Len(rows) :
             /\ rows[i].session_id = sid /\ rows[i].position = pos
             /\ \A j \in 1..(i - 1) : rows[j].session_id # sid \/ rows[j].position # pos]

ListsOf(table, dim) == {r.session_id : r \in {q \in table : q.dimension_value = dim}}

\* the lists of the group with a row satisfying hit(row)
ListsWith(table, dim, hit(_)) ==
    {sid \in ListsOf(table, dim) :
        \E r \in table : r.session_id = sid /\ r.dimension_value = dim /\ hit(r)}

\* 100 * |part| / |whole|, 0 for an empty whole
Share(part, whole) ==
    IF whole = {} THEN Zero
    ELSE FMul(FDiv(Fin(Cardinality(part), 1), Fin(Cardinality(whole), 1)), Hundred)

C23_AnnualFigure ==
    (page.view = "gmv" /\ page.error = "" /\ request.days_back >= 1) =>
        \A t \in {"06", "07", "08"} :
            LET period == response.fields["total_opp_" \o t]
                shown == page.cards["gmv_opp_" \o t].amount
                annual == page.cards["gmv_opp_" \o t \o "_annual"].amount
            IN  /\ shown = period
                /\ annual.kind = "fin"
                /\ IF period = Zero THEN annual = Zero
                   ELSE FDiv(annual, period) = Fin(365, request.days_back)
                /\ (period = Fin(100000, 1) /\ request.days_back = 7) =>
                       /\ FGt(annual, Fin(521428570, 100))
                       /\ FLt(annual, Fin(521428572, 100))
                /\ (period = Fin(100000, 1) /\ request.days_back = 30) =>
                       /\ FGt(annual, Fin(121666666, 100))
                       /\ FLt(annual, Fin(121666668, 100))

C23_Witness ==
    /\ page.view = "gmv"
    /\ page.error = ""
    /\ request.days_back = 7
    /\ response.fields.total_opp_06 = Fin(100000, 1)
    /\ page.cards.gmv_opp_06.amount = Fin(100000, 1)
    /\ page.cards.gmv_opp_06_annual.amount = Fin(36500000, 7)
    /\ page.cards.gmv_opp_06_annual.text = [unit |-> "M", decimals |-> 2, digits |-> 521]

\* C24: every group of the response has 0 <= gmv_opp_06 <= gmv_opp_07 <=
\* gmv_opp_08 (the opportunity is non-negative and non-decreasing in the
\* target when current_gmv >= 0), and the increase is strict when
\* 0 < current_ndcg < 0.6 and current_gmv > 0.
C24_OpportunityMonotoneInTarget ==
    (response.endpoint = "gmv_opportunity" /\ response.error = "") =>
        \A i \in 1..Len(response.items) :
            LET item == response.items[i]
            IN  FGe(item.gmv_usd, Zero) =>
                    /\ FLe(Zero, item.gmv_opp_06)
                    /\ FLe(item.gmv_opp_06, item.gmv_opp_07)
                    /\ FLe(item.gmv_opp_07, item.gmv_opp_08)
                    /\ (FGt(item.avg_ndcg, Zero) /\ FLt(item.avg_ndcg, NDCG_TARGETS[1])
                            /\ FGt(item.gmv_usd, Zero)) =>
                           /\ FLt(Zero, item.gmv_opp_06)
                           /\ FLt(item.gmv_opp_06, item.gmv_opp_07)
                           /\ FLt(item.gmv_opp_07, item.gmv_opp_08)

C24_Witness ==
    /\ response.endpoint = "gmv_opportunity"
    /\ response.error = ""
    /\ \E i, j \in 1..Len(response.items) :
           /\ response.items[i].avg_ndcg = Fin(3, 10)
           /\ response.items[i].gmv_usd = Fin(1000000, 1)
           /\ response.items[i].gmv_opp_06 = Fin(1500000, 1)
           /\ response.items[i].gmv_opp_07 = Fin(2000000, 1)
           /\ response.items[i].gmv_opp_08 = Fin(2500000, 1)
           /\ response.items[j].avg_ndcg = Fin(7, 10)
           /\ response.items[j].gmv_usd = Fin(250000, 1)
           /\ response.items[j].gmv_opp_06 = Zero
           /\ response.items[j].gmv_opp_07 = Zero
           /\ FGt(response.items[j].gmv_opp_08, Zero)

\* the response field holding the total of an item field
TotalOf ==
    [gmv_opp_06 |-> "total_opp_06", gmv_opp_07 |-> "total_opp_07",
     gmv_opp_08 |-> "total_opp_08", gmv_opportunity |-> "total_opportunity"]

\* C25: in the api_gmv_opportunity response total_opp_06, total_opp_07,
\* total_opp_08 and total_opportunity equal the sums of gmv_opp_06, gmv_opp_07,
\* gmv_opp_08 and gmv_opportunity over the returned items, whatever the order
\* the items end up in.
C25_TotalsAreSumsOverItems ==
    (response.endpoint = "gmv_opportunity" /\ response.error = "") =>
        \A f \in DOMAIN TotalOf :
            \A p \in Permutations(1..Len(response.items)) :
                FSum(Column(Permuted(response.items, p), f)) = response.fields[TotalOf[f]]

C25_Witness ==
    /\ response.endpoint = "gmv_opportunity"
    /\ response.error = ""
    /\ Len(response.items) = 2
    /\ response.items[1].dimension_value = upstream.rows[2].dimension_value
    /\ FGt(response.items[2].gmv_opp_06, Zero)
    /\ FGt(response.items[1].gmv_opp_06, response.items[2].gmv_opp_06)
    /\ response.fields.total_opp_06
           = FAdd(response.items[1].gmv_opp_06, response.items[2].gmv_opp_06)
    /\ FGt(response.fields.total_opportunity, Zero)

\* C26: the module-level safe_float never raises; for every finite int or
\* float (0 and negatives included) it returns the input as a float, and for
\* None, NaN, +Infinity, -Infinity and a value float() cannot convert it
\* returns the default.
C26_SafeFloatTotal ==
    call.op = "safe_float" =>
        /\ call.outcome.raised = "none"
        /\ IF call.val \in FiniteInputs
           THEN /\ call.outcome.value.kind = "fin"
                /\ call.val.kind # "hugeint"
                /\ call.outcome.value.n * call.val.d = call.val.n * call.outcome.value.d
           ELSE call.outcome.value = call.default

\* the mean of a field over the entries from..to of the series (NaN when
\* there is no entry)
MeanOver(series, field, from, to) ==
    IF to < from THEN NaN
    ELSE FDiv(FSum([i \in 1..(to - from + 1) |-> series[from + i - 1][field]]),
              Fin(to - from + 1, 1))

\* (last - first) / first * 100 in IEEE arithmetic
PercentChange(first, last) ==
    IF first.kind # "fin" \/ last.kind # "fin" THEN NaN
    ELSE IF first = Zero
         THEN IF FGt(last, Zero) THEN PosInf ELSE NaN
         ELSE FMul(FDiv(FSub(last, first), first), Hundred)

\* C27: the trend summary compares the first 7 entries of the date-ordered
\* series with its last 7 entries (overlapping below 14 entries, the same
\* window at 7 or fewer): % change = (mean(last) - mean(first)) / mean(first)
\* * 100 for NDCG and for CTR, and the overall figures are the means over the
\* whole series.
C27_TrendSummary ==
    (page.view = "trends" /\ page.error = "") =>
        LET series == response.items
            n == Len(series)
            firstEnd == IF n < 7 THEN n ELSE 7
            lastStart == IF n < 7 THEN 1 ELSE n - 6
        IN  /\ \A i \in 1..(n - 1) : series[i].date < series[i + 1].date
            /\ page.cards.trend_ndcg_change
                   = PercentChange(MeanOver(series, "ndcg", 1, firstEnd),
                                   MeanOver(series, "ndcg", lastStart, n))
            /\ page.cards.trend_ctr_change
                   = PercentChange(MeanOver(series, "ctr", 1, firstEnd),
                                   MeanOver(series, "ctr", lastStart, n))
            /\ page.cards.trend_ndcg_avg = MeanOver(series, "ndcg", 1, n)
            /\ page.cards.trend_ctr_avg = MeanOver(series, "ctr", 1, n)
            /\ n <= 7 => page.cards.trend_ndcg_change \in {Zero, NaN}

\* a series of 15 days whose level changes after day 8: the windows are days
\* 1..7 and 9..15
C27_Witness ==
    /\ page.view = "trends"
    /\ page.error = ""
    /\ Len(response.items) = 15
    /\ \A i \in 1..15 : response.items[i].ndcg = IF i <= 8 THEN Fin(2, 10) ELSE Fin(5, 10)
    /\ page.cards.trend_ndcg_change = Fin(150, 1)
    /\ page.cards.trend_ndcg_avg = Fin(34, 100)
    /\ page.cards.trend_ctr_change = Fin(100, 1)

\* C28: every avg_ndcg emitted by the aggregate endpoints lies in [0, 1],
\* because every per-session (or per-fragment) NDCG does: also when the
\* session has several rows at one position and when the fragment's ideal
\* ranks were assigned over the whole session.
C28_AvgNdcgInUnitInterval ==
    (response.endpoint = "optimization" /\ response.error = "") =>
        \A i \in 1..Len(response.items) :
            /\ FLe(Zero, response.items[i].avg_ndcg)
            /\ FLe(response.items[i].avg_ndcg, Fin(1, 1))

\* the values tried for current_ndcg, current_gmv and the median, beyond those
\* the query produces
OpportunityCases ==
    {NegInf, Fin(-1, 2), Zero, Fin(3, 10), Fin(1, 2), Fin(7, 10), Fin(1, 1), PosInf}

ItemFor(current_ndcg, current_gmv, median) ==
    gmv_item([GmvRow EXCEPT !.avg_ndcg = current_ndcg, !.total_gmv_usd = current_gmv], median)

\* C29: the gmv_opportunity computed inline for a group equals
\* calc_gmv_opportunity(current_ndcg, current_gmv, overall_median_ndcg) for
\* every current_ndcg, current_gmv and median (median = 0 and current_ndcg <= 0
\* included), and a group at or above the median gets gmv_opportunity = 0,
\* ndcg_gap = 0 and ndcg_gap_pct = 0.
\* (the grid does not depend on the state: it is evaluated once, before the
\* first request)
C29_InlineEqualsCalc ==
    /\ response = NoResponse =>
           \A c \in OpportunityCases, g \in OpportunityCases, m \in OpportunityCases :
               LET item == ItemFor(c, g, m)
               IN  /\ item.gmv_opportunity = calc_gmv_opportunity(c, g, m)
                   /\ FGe(c, m) => /\ item.gmv_opportunity = Zero
                                   /\ item.ndcg_gap = Zero
                                   /\ item.ndcg_gap_pct = Zero
    /\ (response.endpoint = "gmv_opportunity" /\ response.error = "") =>
           \A i \in 1..Len(response.items) :
               LET item == response.items[i]
                   median == response.overall.median_ndcg
               IN  /\ item.gmv_opportunity
                          = calc_gmv_opportunity(item.avg_ndcg, item.gmv_usd, median)
                   /\ FGe(item.avg_ndcg, median) => /\ item.gmv_opportunity = Zero
                                                    /\ item.ndcg_gap = Zero
                                                    /\ item.ndcg_gap_pct = Zero

C29_Witness ==
    /\ response.endpoint = "gmv_opportunity"
    /\ response.error = ""
    /\ \E i, j \in 1..Len(response.items) :
           /\ FLt(response.items[i].avg_ndcg, response.overall.median_ndcg)
           /\ FGt(response.items[i].gmv_opportunity, Zero)
           /\ response.items[i].gmv_opportunity
                  = calc_gmv_opportunity(response.items[i].avg_ndcg, response.items[i].gmv_usd,
                                         response.overall.median_ndcg)
           /\ response.items[j].avg_ndcg = response.overall.median_ndcg
           /\ FGt(response.items[j].gmv_usd, Zero)
           /\ response.items[j].gmv_opportunity = Zero
           /\ response.items[j].ndcg_gap = Zero

\* C30: get_bq_client constructs the client at most once per process: under
\* every interleaving of the handlers calling it, all callers receive the same
\* client and the global bq_client is not replaced once it is set.
C30_ClientConstructedOnce ==
    /\ Cardinality(Constructed) <= 1
    /\ \A g \in Handlers, h \in Handlers :
           (handlers[g].returned # NoClient /\ handlers[h].returned # NoClient) =>
               handlers[g].returned = handlers[h].returned
    /\ bq_client \in {NoClient, 1}

====
